---- MODULE Spec2Model ----
(***************************************************************************)
(* Annotation Timeline Engine of anonymize-langdoc.                        *)
(*                                                                         *)
(*   src/anonymize_doc.py    redaction of ELAN transcripts and their media *)
(*   src/export_saymore.py   export of SayMore oral annotation sessions    *)
(*                                                                         *)
(* Texts are TLA+ strings, character for character the Python strings.     *)
(* A Python dict is a sequence of <<key, value>> pairs in insertion order. *)
(***************************************************************************)
EXTENDS Integers, Sequences, FiniteSets, TLC

VARIABLES
    \* ---- Markup Redactor, applied as a function (SpecText)
    tpc,            \* "in" | "once" | "twice"
    tIn,            \* the string handed to the redactor
    tOut,           \* [doc |-> anonymize_text(tIn), exp |-> anonymize(tIn)]
    tOut2,          \* the same of the first outputs
    \* ---- anonymize_doc.py, one transcript (Spec, SpecStore, SpecFilter)
    pc,             \* where the script is
    transcript,     \* the pympi Eaf object: [tiers, timeslots]
    loaded,         \* the transcript as it was loaded (kept for the claims)
    tier_idx,       \* position of 'for tier in transcript.tiers'
    annotations,    \* get_annotation_data_for_tier(tier), taken once per tier
    ann_idx,        \* position of 'for (...) in annotations'
    set_annotation, \* "aligned" | "ref": the setter chosen for the tier
    segments_to_anonymize,
    volume_filter,  \* the filter script anonymize_audio writes
    video_filter,   \* the filter script anonymize_video writes
    call,           \* the last direct call of a setter (SpecStore)
    \* ---- anonymize_doc.py, the media of the transcript and the saving
    temp_files,     \* the filter-script files that exist
    ffmpeg_status,  \* dict: media file -> status subprocess.call returned
    output_dir,     \* the set of files in args.output_dir
    original_to_anonymized_media,
    stdout,         \* the lines the script has printed
    clips,          \* the create_clip calls of review_anonymization
    media_descriptors,  \* transcript.media_descriptors
    saved_transcript,   \* the transcripts pympi.Elan.to_eaf has written
    \* ---- export_saymore.py, one session (SpecMerge)
    mpc,            \* where the script is; "failed" after an assert or
                    \* sys.exit(-1), "raised" after an exception of the join
    args,           \* [anonymize, generate_audio]: the options given
    src_audio,      \* the source audio: [found, len], len in ms
    oa_dir_isdir,   \* os.path.isdir(oa_dir): the oral annotations folder is there
    utterances,     \* the rows of the source transcript read so far
    oa_annotations, \* the list 'annotations' of the merge loop
    offset,
    annotation_id,
    timeslot_id,
    output_file,    \* "absent" | "empty" | "written": the output .eaf
    document,       \* what the template rendered
    out_tracks,     \* [orig, rep, trans]: the three output tracks
    dst_audio,      \* the channels of the file ffmpeg wrote, <<>> if none
    \* ---- anonymize_doc.py, a batch of transcripts (SpecBatch)
    bpc,            \* where the script is in the loop over the transcripts
    elan_transcripts,   \* args.elan_transcripts: what is at each path given
    batch_idx,      \* position of 'for input_transcript_fname in ...'
    batch_stdout,   \* the lines the script has printed
    batch_output,   \* the files written to args.output_dir, in order
    batch_error     \* the exception that ended the run, "" if none

textVars == <<tpc, tIn, tOut, tOut2>>
docVars == <<pc, transcript, loaded, tier_idx, annotations, ann_idx,
             set_annotation, segments_to_anonymize, volume_filter,
             video_filter, call>>
mediaVars == <<temp_files, ffmpeg_status, output_dir,
               original_to_anonymized_media, stdout, clips,
               media_descriptors, saved_transcript>>
mergeVars == <<mpc, args, src_audio, oa_dir_isdir, utterances, oa_annotations, offset,
               annotation_id, timeslot_id, output_file, document, out_tracks,
               dst_audio>>
batchVars == <<bpc, elan_transcripts, batch_idx, batch_stdout, batch_output,
               batch_error>>
vars == <<textVars, docVars, mediaVars, mergeVars, batchVars>>

(***************************************************************************)
(* Strings                                                                 *)
(***************************************************************************)

Min(S) == CHOOSE x \in S : \A y \in S : x <= y

\* str.find(lit, from): the least 1-based index >= from at which lit occurs
\* in s, or 0.
IndexOf(s, lit, from) ==
    LET c == { j \in from .. (Len(s) - Len(lit) + 1) :
                 SubSeq(s, j, j + Len(lit) - 1) = lit }
    IN  IF c = {} THEN 0 ELSE Min(c)

\* s.startswith(lit, i - 1)
StartsAt(s, lit, i) ==
    /\ i >= 1
    /\ i + Len(lit) - 1 <= Len(s)
    /\ SubSeq(s, i, i + Len(lit) - 1) = lit

\* lit in s
Contains(s, lit) == IndexOf(s, lit, 1) # 0

\* '.' of a regular expression compiled without re.DOTALL: any character
\* but a newline.  TRUE iff s[a..b] is matched by '.*'.
DotStar(s, a, b) == \A k \in a .. b : SubSeq(s, k, k) # "\n"

(***************************************************************************)
(* re: the patterns of the redactor are literals joined by a lazy '(.*?)', *)
(* written here as the sequence of their literals.                         *)
(***************************************************************************)

\* The rest of a match: literals pat[k..] each preceded by '.*?', from
\* position p on.  The index of the last character matched, or 0.  The lazy
\* quantifier takes the first occurrence of the next literal; a later one
\* cannot succeed where the first fails, since what follows only has to come
\* after it on the same line.
RECURSIVE MatchRest(_, _, _, _)
MatchRest(s, pat, k, p) ==
    LET j == IndexOf(s, pat[k], p)
    IN  IF j = 0 \/ ~DotStar(s, p, j - 1) THEN 0
        ELSE IF k = Len(pat) THEN j + Len(pat[k]) - 1
        ELSE MatchRest(s, pat, k + 1, j + Len(pat[k]))

\* re.search from position pos: <<start, end>> of the leftmost match, or
\* <<0, 0>>.
RECURSIVE Search(_, _, _)
Search(s, pat, pos) ==
    LET i == IndexOf(s, pat[1], pos)
    IN  IF i = 0 THEN <<0, 0>>
        ELSE LET e == IF Len(pat) = 1 THEN i + Len(pat[1]) - 1
                      ELSE MatchRest(s, pat, 2, i + Len(pat[1]))
             IN  IF e # 0 THEN <<i, e>> ELSE Search(s, pat, i + 1)

\* re.sub(pat, repl, s) restricted to count = 1: only the leftmost match is
\* replaced.
ReSubFirst(pat, repl, s) ==
    LET m == Search(s, pat, 1)
    IN  IF m[1] = 0 THEN s
        ELSE SubSeq(s, 1, m[1] - 1) \o repl \o SubSeq(s, m[2] + 1, Len(s))

\* re.sub(pat, repl, s): every non-overlapping match, left to right, is
\* replaced by repl (which holds no group reference).
RECURSIVE ReSubFrom(_, _, _, _)
ReSubFrom(pat, repl, s, pos) ==
    LET m == Search(s, pat, pos)
    IN  IF m[1] = 0 THEN SubSeq(s, pos, Len(s))
        ELSE SubSeq(s, pos, m[1] - 1) \o repl
                 \o ReSubFrom(pat, repl, s, m[2] + 1)

ReSub(pat, repl, s) == ReSubFrom(pat, repl, s, 1)

(***************************************************************************)
(* Markup Redactor                                                         *)
(***************************************************************************)

AnonNameRe  == <<"[anon type=\"name\"]", "[/anon]">>
NameRe      == <<"[name]", "[/name]">>
AnonAnyRe   == <<"[anon type=\"", "\"]", "[/anon]">>
SensitiveRe == <<"[sensitive]", "[/sensitive]">>

\* The redactor with every substitution limited to its first match
\* (re.sub(..., count = 1)).
anonymize_text_first(s) ==
    LET s1 == ReSubFirst(AnonNameRe, "(NAME)", s)
        s2 == ReSubFirst(NameRe, "(NAME)", s1)
        s3 == ReSubFirst(AnonAnyRe, "(SENSITIVE)", s2)
        s4 == ReSubFirst(SensitiveRe, "(SENSITIVE)", s3)
    IN  s4

anonymize_text(s) ==
    LET s1 == ReSub(AnonNameRe, "(NAME)", s)
        s2 == ReSub(NameRe, "(NAME)", s1)
        s3 == ReSub(AnonAnyRe, "(SENSITIVE)", s2)
        s4 == ReSub(SensitiveRe, "(SENSITIVE)", s3)
    IN  s4

\* export_saymore.py carries its own copy of the redactor.
export_anonymize_text(s) ==
    LET s1 == ReSub(AnonNameRe, "(NAME)", s)
        s2 == ReSub(NameRe, "(NAME)", s1)
        s3 == ReSub(AnonAnyRe, "(SENSITIVE)", s2)
        s4 == ReSub(SensitiveRe, "(SENSITIVE)", s3)
    IN  s4

\* anonymize(s) -> (anon_s, anon_s != s)
anonymize(s) ==
    LET anon_s == export_anonymize_text(s)
    IN  <<anon_s, anon_s # s>>

\* anonymous_text_re.search(value): '\[\/?(anon|name|sensitive)'
anonymous_text_re(value) ==
    \/ Contains(value, "[anon")  \/ Contains(value, "[/anon")
    \/ Contains(value, "[name")  \/ Contains(value, "[/name")
    \/ Contains(value, "[sensitive") \/ Contains(value, "[/sensitive")

(***************************************************************************)
(* Annotation Store: the pympi Eaf object as anonymize_doc.py reads it     *)
(*                                                                         *)
(*   transcript.timeslots   dict  timeslot id -> milliseconds              *)
(*   transcript.tiers       dict  tier name -> (aligned, ref, attributes,  *)
(*                                              ordinal)                   *)
(*     aligned  dict  annotation id -> (start_ts, end_ts, value, svg_ref)  *)
(*     ref      dict  annotation id -> (parent id, value, previous, svg)   *)
(***************************************************************************)

None == "None"

DictHas(d, key) == \E k \in 1 .. Len(d) : d[k][1] = key
DictGet(d, key) == d[CHOOSE k \in 1 .. Len(d) : d[k][1] = key][2]
\* d[key] = val for a key the dict holds: the key keeps its place.
DictSet(d, key, val) ==
    [k \in 1 .. Len(d) |-> IF d[k][1] = key THEN <<key, val>> ELSE d[k]]

\* tiers[tier][0], tiers[tier][1], tiers[tier][2]
Aligned(t) == t[1]
Ref(t) == t[2]
Attributes(t) == t[3]

\* pympi: the tier that holds annotation ann_id (Eaf.annotations[ann_id]).
TierOfAnnotation(tr, ann_id) ==
    LET ts == tr.tiers
        k == CHOOSE k \in 1 .. Len(ts) :
                 \/ DictHas(Aligned(ts[k][2]), ann_id)
                 \/ DictHas(Ref(ts[k][2]), ann_id)
    IN  ts[k][2]

\* pympi: the aligned annotation a reference annotation belongs to, directly
\* or through other reference annotations.
RECURSIVE get_parent_aligned_annotation(_, _)
get_parent_aligned_annotation(tr, ref_id) ==
    LET parentTier == TierOfAnnotation(tr, ref_id)
    IN  IF DictHas(Attributes(parentTier), "PARENT_REF")
        THEN get_parent_aligned_annotation(tr,
                 DictGet(Ref(parentTier), ref_id)[1])
        ELSE DictGet(Aligned(parentTier), ref_id)

\* pympi: [(start, end, value, refvalue)] of a tier of reference annotations.
get_ref_annotation_data_for_tier(tr, id_tier) ==
    LET r == Ref(DictGet(tr.tiers, id_tier))
    IN  [k \in 1 .. Len(r) |->
            LET refann == get_parent_aligned_annotation(tr, r[k][2][1])
            IN  <<DictGet(tr.timeslots, refann[1]),
                  DictGet(tr.timeslots, refann[2]),
                  r[k][2][2], refann[3]>>]

\* pympi: [(start, end, value)] of a tier of aligned annotations, or the
\* reference annotations' data when the tier holds any.
get_annotation_data_for_tier(tr, id_tier) ==
    LET t == DictGet(tr.tiers, id_tier)
        a == Aligned(t)
    IN  IF Ref(t) # <<>>
        THEN get_ref_annotation_data_for_tier(tr, id_tier)
        ELSE [k \in 1 .. Len(a) |->
                <<DictGet(tr.timeslots, a[k][2][1]),
                  DictGet(tr.timeslots, a[k][2][2]),
                  a[k][2][3]>>]

\* transcript.tiers[tier] = t
WithTier(tr, tier, t) ==
    [tr EXCEPT !.tiers = DictSet(tr.tiers, tier, t)]

\* What a setter returns: the transcript as it leaves it, and whether it
\* raised (a KeyError).
Returned(tr) == [transcript |-> tr, raised |-> FALSE]
Raised(tr) == [transcript |-> tr, raised |-> TRUE]

\* set_ref_annotation without its 'break': every matching annotation is set.
set_ref_annotation_no_break(tr, tier, start_ms, end_ms, new_value) ==
    LET t == DictGet(tr.tiers, tier)
        parent_tier == DictGet(Attributes(t), "PARENT_REF")
        parents == Aligned(DictGet(tr.tiers, parent_tier))
        r == Ref(t)
        Hit(k) ==
            /\ DictHas(parents, r[k][2][1])
            /\ DictGet(tr.timeslots, DictGet(parents, r[k][2][1])[1]) = start_ms
            /\ DictGet(tr.timeslots, DictGet(parents, r[k][2][1])[2]) = end_ms
    IN  Returned(WithTier(tr, tier,
            <<Aligned(t),
              [k \in 1 .. Len(r) |->
                  IF Hit(k)
                  THEN <<r[k][1], <<r[k][2][1], new_value, r[k][2][3], r[k][2][4]>>>>
                  ELSE r[k]],
              t[3], t[4]>>))

set_ref_annotation(tr, tier, start_ms, end_ms, new_value) ==
    LET t == DictGet(tr.tiers, tier)
    IN  IF ~DictHas(Attributes(t), "PARENT_REF") THEN Raised(tr)
        ELSE
        LET parent_tier == DictGet(Attributes(t), "PARENT_REF")
            parents == Aligned(DictGet(tr.tiers, parent_tier))
            r == Ref(t)
            \* transcript.tiers[parent_tier][0][parent_ann_id] raises KeyError
            KeyError(k) == ~DictHas(parents, r[k][2][1])
            Hit(k) ==
                /\ ~KeyError(k)
                /\ DictGet(tr.timeslots, DictGet(parents, r[k][2][1])[1]) = start_ms
                /\ DictGet(tr.timeslots, DictGet(parents, r[k][2][1])[2]) = end_ms
            \* the iterations that leave the loop
            stops == { k \in 1 .. Len(r) : KeyError(k) \/ Hit(k) }
        IN  IF stops = {} THEN Returned(tr)
            ELSE LET k == Min(stops)
                 IN  IF KeyError(k) THEN Raised(tr)
                     ELSE Returned(WithTier(tr, tier,
                              <<Aligned(t),
                                DictSet(r, r[k][1],
                                    <<r[k][2][1], new_value, r[k][2][3], r[k][2][4]>>),
                                t[3], t[4]>>))

\* set_aligned_annotation writing the tuple with its timeslots exchanged.
set_aligned_annotation_swapped(tr, tier, start_ms, end_ms, new_value) ==
    LET t == DictGet(tr.tiers, tier)
        a == Aligned(t)
        hits == { k \in 1 .. Len(a) :
                    /\ DictGet(tr.timeslots, a[k][2][1]) = start_ms
                    /\ DictGet(tr.timeslots, a[k][2][2]) = end_ms }
    IN  IF hits = {} THEN Returned(tr)
        ELSE LET k == Min(hits)
             IN  Returned(WithTier(tr, tier,
                     <<DictSet(a, a[k][1],
                           <<a[k][2][2], a[k][2][1], new_value, a[k][2][4]>>),
                       Ref(t), t[3], t[4]>>))

set_aligned_annotation(tr, tier, start_ms, end_ms, new_value) ==
    LET t == DictGet(tr.tiers, tier)
        a == Aligned(t)
        hits == { k \in 1 .. Len(a) :
                    /\ DictGet(tr.timeslots, a[k][2][1]) = start_ms
                    /\ DictGet(tr.timeslots, a[k][2][2]) = end_ms }
    IN  IF hits = {} THEN Returned(tr)
        ELSE LET k == Min(hits)
             IN  Returned(WithTier(tr, tier,
                     <<DictSet(a, a[k][1],
                           <<a[k][2][1], a[k][2][2], new_value, a[k][2][4]>>),
                       Ref(t), t[3], t[4]>>))

\* The setter the main loop chooses for a tier from the arity of the
\* tuples get_annotation_data_for_tier returns.
ChooseSetter(anns) ==
    IF anns # <<>> /\ Len(anns[1]) > 3 THEN "ref" ELSE "aligned"

\* set_annotation(transcript, tier, start_ms, end_ms, new_value)
CallSetter(setter, tr, tier, start_ms, end_ms, new_value) ==
    IF setter = "ref"
    THEN set_ref_annotation(tr, tier, start_ms, end_ms, new_value)
    ELSE set_aligned_annotation(tr, tier, start_ms, end_ms, new_value)

(***************************************************************************)
(* Filter Program Compiler                                                 *)
(***************************************************************************)

Pad3(n) ==
    IF n < 10 THEN "00" \o ToString(n)
    ELSE IF n < 100 THEN "0" \o ToString(n)
    ELSE ToString(n)

\* '%.3f' % (num / den): the quotient rounded to the nearest thousandth,
\* with exactly three fractional digits.
Format3f(num, den) ==
    LET a == IF num < 0 THEN 0 - num ELSE num
        q == (2000 * a + den) \div (2 * den)
    IN  (IF num < 0 THEN "-" ELSE "")
            \o ToString(q \div 1000) \o "." \o Pad3(q % 1000)

\* sep.join(list)
RECURSIVE Join(_, _)
Join(sep, list) ==
    IF list = <<>> THEN ""
    ELSE IF Len(list) = 1 THEN list[1]
    ELSE list[1] \o sep \o Join(sep, Tail(list))

\* The mute clause of anonymize_audio with whole seconds (start_ms // 1000).
audio_volume_clause_floor(start_ms, end_ms) ==
    "volume=enable='between(t\\," \o Format3f(start_ms \div 1000, 1)
        \o "\\," \o Format3f(end_ms \div 1000, 1) \o ")':volume=0"

\* "volume=enable='between(t\,%.3f\,%.3f)':volume=0" of anonymize_audio
audio_volume_clause(start_ms, end_ms) ==
    "volume=enable='between(t\\," \o Format3f(start_ms, 1000)
        \o "\\," \o Format3f(end_ms, 1000) \o ")':volume=0"

\* "boxblur=10:enable='between(t\,%.3f\,%.3f)'" of anonymize_video
video_boxblur_clause(start_ms, end_ms) ==
    "boxblur=10:enable='between(t\\," \o Format3f(start_ms, 1000)
        \o "\\," \o Format3f(end_ms, 1000) \o ")'"

\* "volume=enable='between(t\,%.3f\,%.3f)':volume=0" of anonymize_video
video_volume_clause(start_ms, end_ms) ==
    "volume=enable='between(t\\," \o Format3f(start_ms, 1000)
        \o "\\," \o Format3f(end_ms, 1000) \o ")':volume=0"

\* The segments with every repeated interval dropped.
RECURSIVE Distinct(_)
Distinct(list) ==
    IF list = <<>> THEN <<>>
    ELSE LET front == Distinct(SubSeq(list, 1, Len(list) - 1))
             last == list[Len(list)]
         IN  IF \E k \in 1 .. Len(front) :
                    front[k][1] = last[1] /\ front[k][2] = last[2]
             THEN front ELSE Append(front, last)

\* anonymize_audio's filter with one clause per distinct interval.
audio_filter_distinct(segments) ==
    LET d == Distinct(segments)
    IN  Join(", ", [k \in 1 .. Len(d) |-> audio_volume_clause(d[k][1], d[k][2])])

\* volume_filter of anonymize_audio
audio_filter(segments) ==
    Join(", ", [k \in 1 .. Len(segments) |->
                   audio_volume_clause(segments[k][1], segments[k][2])])

\* video_filter of anonymize_video
video_filter_of(segments) ==
    "format=yuv420p, "
        \o Join(", ", [k \in 1 .. Len(segments) |->
                         video_boxblur_clause(segments[k][1], segments[k][2])])
        \o "; "
        \o Join(", ", [k \in 1 .. Len(segments) |->
                         video_volume_clause(segments[k][1], segments[k][2])])

(***************************************************************************)
(* Transcripts the script is given                                         *)
(*                                                                         *)
(* Four tiers in document order: "T" (aligned), "R" (referential, parent   *)
(* T), "RR" (referential, parent R) and "Postprocess" (aligned).           *)
(***************************************************************************)

MaxAligned == 1     \* annotations on T
MaxRef == 2         \* annotations on R
MaxPost == 2        \* annotations on Postprocess

TierValues == { "hi", "[sensitive]foo[/sensitive] bar" }
RefValues == { "hi", "[name]X[/name] ok" }
PostValues == { "", "[name]X[/name]" }

TsId(n) == "ts" \o ToString(n)
AnnId(n) == "a" \o ToString(n)

\* The span of the k-th annotation of T, and of Postprocess (whose spans
\* overlap, and repeat from the third on).
TierSpan(k) == <<(k - 1) * 1000, k * 1000>>
PostSpan(k) == IF k % 2 = 1 THEN <<1000, 2000>> ELSE <<1500, 2500>>

SeqsUpTo(S, n) == UNION { [1 .. m -> S] : m \in 0 .. n }

\* tv: the values of T's annotations; rp, rv: the parent (an index of T) and
\* the value of each annotation of R; rrv: the values of RR's annotations,
\* all under R's first; pn, pv: the number of Postprocess annotations and
\* their value.
MakeTranscript(tv, rp, rv, rrv, pn, pv) ==
    LET nT == Len(tv)
        nR == Len(rv)
        nRR == Len(rrv)
    IN  [ timeslots |->
            [k \in 1 .. 2 * nT |->
                <<TsId(k), TierSpan((k + 1) \div 2)[2 - (k % 2)]>>]
            \o [k \in 1 .. 2 * pn |->
                <<TsId(2 * nT + k), PostSpan((k + 1) \div 2)[2 - (k % 2)]>>],
          tiers |->
            << <<"T",
                 << [k \in 1 .. nT |->
                        <<AnnId(k), <<TsId(2 * k - 1), TsId(2 * k), tv[k], None>>>>],
                    <<>>,
                    << <<"TIER_ID", "T">> >>, 1 >> >>,
               <<"R",
                 << <<>>,
                    [j \in 1 .. nR |->
                        <<AnnId(nT + j),
                          <<AnnId(rp[j]), rv[j],
                            IF j > 1 /\ rp[j - 1] = rp[j] THEN AnnId(nT + j - 1) ELSE None,
                            None>>>>],
                    << <<"TIER_ID", "R">>, <<"PARENT_REF", "T">> >>, 2 >> >>,
               <<"RR",
                 << <<>>,
                    [j \in 1 .. nRR |->
                        <<AnnId(nT + nR + j), <<AnnId(nT + 1), rrv[j], None, None>>>>],
                    << <<"TIER_ID", "RR">>, <<"PARENT_REF", "R">> >>, 3 >> >>,
               <<"Postprocess",
                 << [k \in 1 .. pn |->
                        <<AnnId(nT + nR + nRR + k),
                          <<TsId(2 * nT + 2 * k - 1), TsId(2 * nT + 2 * k), pv, None>>>>],
                    <<>>,
                    << <<"TIER_ID", "Postprocess">> >>, 4 >> >> >> ]

\* The shapes MakeTranscript is given: every reference annotation has a
\* parent that exists.
Shapes ==
    { x \in SeqsUpTo(TierValues, MaxAligned) \X SeqsUpTo(1 .. MaxAligned, MaxRef)
              \X SeqsUpTo(RefValues, MaxRef) \X SeqsUpTo(RefValues, 1)
              \X (0 .. MaxPost) \X PostValues :
        /\ Len(x[2]) = Len(x[3])
        /\ \A j \in 1 .. Len(x[2]) : x[2][j] <= Len(x[1])
        /\ Len(x[4]) > 0 => Len(x[3]) > 0
        /\ x[5] = 0 => x[6] = "" }

Transcripts == { MakeTranscript(x[1], x[2], x[3], x[4], x[5], x[6]) : x \in Shapes }

NoOut == [doc |-> "", exp |-> <<"", FALSE>>]
NoTranscript == [timeslots |-> <<>>, tiers |-> <<>>]
NoCall == [tier |-> "", start_ms |-> 0, end_ms |-> 0, new_value |-> "",
           raised |-> FALSE]

\* The media of the transcript "session.eaf": one audio and one video file
\* in the transcript's directory share its basename.
TranscriptFile == "session.eaf"
AudioFile == "/data/session.wav"
VideoFile == "/data/session.mp4"
MediaDescriptors ==
    << [MEDIA_URL |-> "file:///data/session.wav",
        RELATIVE_MEDIA_URL |-> "./session.wav"],
       [MEDIA_URL |-> "file:///data/session.mp4",
        RELATIVE_MEDIA_URL |-> "./session.mp4"] >>

\* Nothing transcoded, printed, reviewed or saved yet.
MediaIdle ==
    /\ temp_files = {}
    /\ ffmpeg_status = <<>>
    /\ output_dir = {}
    /\ original_to_anonymized_media = <<>>
    /\ stdout = <<>>
    /\ clips = <<>>
    /\ media_descriptors = MediaDescriptors
    /\ saved_transcript = <<>>

NoDocument == [timeslots |-> <<>>, tiers |-> <<>>]
NoSource == [found |-> FALSE, len |-> 0]
NoTracks == [orig |-> <<>>, rep |-> <<>>, trans |-> <<>>]

\* export_saymore.py is not running.
MergeIdle ==
    /\ mpc = "off"
    /\ args = [anonymize |-> FALSE, generate_audio |-> FALSE]
    /\ src_audio = NoSource
    /\ oa_dir_isdir = FALSE
    /\ utterances = <<>>
    /\ oa_annotations = <<>>
    /\ offset = 0
    /\ annotation_id = 1
    /\ timeslot_id = 1
    /\ output_file = "absent"
    /\ document = NoDocument
    /\ out_tracks = NoTracks
    /\ dst_audio = <<>>

\* anonymize_doc.py is not running over a batch.
BatchIdle ==
    /\ bpc = "off"
    /\ elan_transcripts = <<>>
    /\ batch_idx = 0
    /\ batch_stdout = <<>>
    /\ batch_output = <<>>
    /\ batch_error = ""

\* The script is not running (SpecText).
DocIdle ==
    /\ pc = "off"
    /\ transcript = NoTranscript
    /\ loaded = NoTranscript
    /\ tier_idx = 0
    /\ annotations = <<>>
    /\ ann_idx = 0
    /\ set_annotation = "aligned"
    /\ segments_to_anonymize = <<>>
    /\ volume_filter = ""
    /\ video_filter = ""
    /\ call = NoCall
    /\ MediaIdle

(***************************************************************************)
(* Spec: anonymize_doc.py on one transcript                                *)
(***************************************************************************)

TierName(k) == transcript.tiers[k][1]
NumTiers == Len(transcript.tiers)

\* transcript = pympi.Elan.Eaf(input_transcript_fname)
Init ==
    /\ tpc = "off" /\ tIn = "" /\ tOut = NoOut /\ tOut2 = NoOut
    /\ pc = "tier"
    /\ transcript \in Transcripts
    /\ loaded = transcript
    /\ tier_idx = 1
    /\ annotations = <<>>
    /\ ann_idx = 0
    /\ set_annotation = "aligned"
    /\ segments_to_anonymize = <<>>
    /\ volume_filter = ""
    /\ video_filter = ""
    /\ call = NoCall
    /\ temp_files = {}
    /\ ffmpeg_status = <<>>
    /\ output_dir = {}
    /\ original_to_anonymized_media = <<>>
    /\ stdout = << "Anonymizing transcript 'session.eaf'" >>
    /\ clips = <<>>
    /\ media_descriptors = MediaDescriptors
    /\ saved_transcript = <<>>
    /\ MergeIdle
    /\ BatchIdle

\* 'for tier in transcript.tiers': the tier's annotation data is read and
\* the setter chosen; a tier without annotations is left at once.
EnterTier ==
    /\ pc = "tier"
    /\ tier_idx <= NumTiers
    /\ LET anns == get_annotation_data_for_tier(transcript, TierName(tier_idx))
       IN  /\ annotations' = anns
           /\ set_annotation' = ChooseSetter(anns)
           /\ IF anns = <<>>
              THEN /\ tier_idx' = tier_idx + 1
                   /\ ann_idx' = 0
                   /\ pc' = "tier"
              ELSE /\ tier_idx' = tier_idx
                   /\ ann_idx' = 1
                   /\ pc' = "annotation"
    /\ UNCHANGED <<batchVars, textVars, mediaVars, mergeVars, transcript, loaded, segments_to_anonymize,
                   volume_filter, video_filter, call>>

\* One iteration of 'for (start_ms, end_ms, value, *refvalue) in
\* annotations': the value is redacted iff the pre-check finds a tag.  A
\* KeyError raised by the setter ends the script.
RedactAnnotation ==
    /\ pc = "annotation"
    /\ ann_idx <= Len(annotations)
    /\ LET a == annotations[ann_idx]
           r == IF anonymous_text_re(a[3])
                THEN CallSetter(set_annotation, transcript, TierName(tier_idx),
                                a[1], a[2], anonymize_text(a[3]))
                ELSE Returned(transcript)
       IN  /\ transcript' = r.transcript
           /\ IF r.raised
              THEN /\ pc' = "raised"
                   /\ UNCHANGED <<tier_idx, ann_idx>>
              ELSE IF ann_idx = Len(annotations)
              THEN /\ pc' = "tier"
                   /\ tier_idx' = tier_idx + 1
                   /\ ann_idx' = 0
              ELSE /\ pc' = "annotation"
                   /\ tier_idx' = tier_idx
                   /\ ann_idx' = ann_idx + 1
    /\ UNCHANGED <<batchVars, textVars, mediaVars, mergeVars, loaded, annotations, set_annotation,
                   segments_to_anonymize, volume_filter, video_filter, call>>

\* segments_to_anonymize = transcript.get_annotation_data_for_tier('Postprocess')
CollectSegments ==
    /\ pc = "tier"
    /\ tier_idx > NumTiers
    /\ segments_to_anonymize' = get_annotation_data_for_tier(transcript, "Postprocess")
    /\ pc' = "audio"
    /\ UNCHANGED <<batchVars, textVars, mediaVars, mergeVars, transcript, loaded, tier_idx, annotations, ann_idx,
                   set_annotation, volume_filter, video_filter, call>>

\* One call of ffmpeg(1) through subprocess.call (or subprocess.run without
\* check, in export_saymore.py): it returns the exit status
\* of the transcoder, or raises when the transcoder cannot be started.  The
\* transcoder is taken to have written its output file if and only if its
\* exit status is 0.
FfmpegOutcomes ==
    { [raised |-> FALSE, returncode |-> 0],
      [raised |-> FALSE, returncode |-> 1],
      [raised |-> TRUE, returncode |-> 0] }

\* os.path.basename
RECURSIVE basename(_)
basename(path) ==
    LET i == IndexOf(path, "/", 1)
    IN  IF i = 0 THEN path ELSE basename(SubSeq(path, i + 1, Len(path)))

\* os.path.splitext(...)[0] of a name with a three-letter extension
splitext0(fname) == SubSeq(fname, 1, Len(fname) - 4)

\* os.path.join(output_dir, basename without extension + output_suffix + ext)
\* with the default --output_dir and --output_suffix.
output_fname(input_fname, ext) ==
    "anonymized/" \o splitext0(basename(input_fname)) \o "-ANONYMIZED" \o ext

\* anonymize_audio / anonymize_video from the creation of the filter script
\* on: the script file is created and written, the transcoder called, and
\* the script file removed once subprocess.call has returned.  files: the
\* filter-script files that exist when the function is entered.
transcode(script_f, files, outcome) ==
    LET created == files \cup {script_f}
    IN  IF outcome.raised
        THEN [raised |-> TRUE, temp_files |-> created]
        ELSE [raised |-> FALSE, temp_files |-> created \ {script_f}]

\* One iteration of a media loop: the line printed, the function called and
\* its result entered in original_to_anonymized_media.  An exception of
\* subprocess.call ends the script.
MediaStep(media, script_f, ext, outcome, next_pc) ==
    LET r == transcode(script_f, temp_files, outcome)
        out == output_fname(media, ext)
    IN  /\ temp_files' = r.temp_files
        /\ IF r.raised
           THEN /\ pc' = "raised"
                /\ UNCHANGED <<ffmpeg_status, output_dir,
                               original_to_anonymized_media>>
           ELSE /\ pc' = next_pc
                /\ ffmpeg_status' =
                       Append(ffmpeg_status, <<media, outcome.returncode>>)
                /\ output_dir' = IF outcome.returncode = 0
                                 THEN output_dir \cup {out}
                                 ELSE output_dir
                /\ original_to_anonymized_media' =
                       Append(original_to_anonymized_media,
                              <<basename(media), out>>)

\* anonymize_audio on the audio file of the transcript.
AnonymizeAudio ==
    /\ pc = "audio"
    /\ volume_filter' = audio_filter(segments_to_anonymize)
    /\ stdout' = Append(stdout, "Anonymizing audio file '" \o AudioFile \o "'")
    /\ \E outcome \in FfmpegOutcomes :
          MediaStep(AudioFile, "volume_filter_f", ".wav", outcome, "video")
    /\ UNCHANGED <<batchVars, textVars, mergeVars, transcript, loaded, tier_idx,
                   annotations, ann_idx, set_annotation,
                   segments_to_anonymize, video_filter, call, clips,
                   media_descriptors, saved_transcript>>

\* anonymize_video on the video file of the transcript.
AnonymizeVideo ==
    /\ pc = "video"
    /\ video_filter' = video_filter_of(segments_to_anonymize)
    /\ stdout' = Append(stdout, "Anonymizing video file '" \o VideoFile \o "'")
    /\ \E outcome \in FfmpegOutcomes :
          MediaStep(VideoFile, "video_filter_f", ".mp4", outcome, "done")
    /\ UNCHANGED <<batchVars, textVars, mergeVars, transcript, loaded, tier_idx,
                   annotations, ann_idx, set_annotation,
                   segments_to_anonymize, volume_filter, call, clips,
                   media_descriptors, saved_transcript>>

REVIEW_CONTEXT == 1000

\* What the probe 'ffmpeg -i media -af astats -f null -' gives: its exit
\* status, its output as '%s' prints the bytes, and whether the output names
\* the number of samples and the sample rate.
Probes ==
    { [returncode |-> 1, output |-> "b'boom'", parsed |-> FALSE,
       samples |-> 0, rate |-> 1],
      [returncode |-> 0, output |-> "b''", parsed |-> FALSE,
       samples |-> 0, rate |-> 1],
      [returncode |-> 0, output |-> "", parsed |-> TRUE,
       samples |-> 132300, rate |-> 44100] }

\* The try block of get_duration_ms runs to its end: check_output does not
\* raise CalledProcessError and both regular expressions match.
probe_ok(probe) == probe.returncode = 0 /\ probe.parsed

\* int(round(num / den)) of Python 3: to the nearest, ties to even.
RoundDiv(num, den) ==
    LET q == num \div den
        r == num % den
    IN  IF 2 * r > den \/ (2 * r = den /\ q % 2 = 1) THEN q + 1 ELSE q

\* get_duration_ms: -1 unless the probe succeeded.
get_duration_ms(probe) ==
    IF probe_ok(probe) THEN RoundDiv(1000 * probe.samples, probe.rate) ELSE -1

Pad2(n) == IF n < 10 THEN "0" \o ToString(n) ELSE ToString(n)

ms_to_timestamp(time_ms, ffmpeg) ==
    LET millis == time_ms % 1000
        secs == (time_ms \div 1000) % 60
        mins == (time_ms \div 60000) % 60
        hours == time_ms \div 3600000
    IN  IF ffmpeg
        THEN Pad2(hours) \o ":" \o Pad2(mins) \o ":" \o Pad2(secs) \o "."
                 \o Pad3(millis)
        ELSE Pad2(hours) \o "h" \o Pad2(mins) \o "m" \o Pad2(secs) \o "s"
                 \o Pad3(millis)

Max2(a, b) == IF a >= b THEN a ELSE b
Min2(a, b) == IF a <= b THEN a ELSE b

\* The create_clip calls of review_anonymization for one media file whose
\* duration was probed as media_dur_ms.
review_media(media, media_dur_ms, segments) ==
    [k \in 1 .. Len(segments) |->
        LET start_ms == segments[k][1]
            end_ms == segments[k][2]
        IN  [ input_fname |-> media,
              start_ms |-> Max2(start_ms - REVIEW_CONTEXT, 0),
              end_ms |-> Min2(end_ms + REVIEW_CONTEXT, media_dur_ms),
              media_dur_ms |-> media_dur_ms,
              output_fname |->
                  SubSeq(media, 1, Len(media) - 4) \o "-"
                      \o ms_to_timestamp(start_ms, FALSE) \o "_"
                      \o ms_to_timestamp(end_ms, FALSE)
                      \o SubSeq(media, Len(media) - 3, Len(media)) ]]

\* review_anonymization over the media files of the output directory, the
\* k-th probed with probes[k].
RECURSIVE review_anonymization(_, _, _)
review_anonymization(segments, media, probes) ==
    IF media = <<>> THEN <<>>
    ELSE review_media(Head(media), get_duration_ms(Head(probes)), segments)
             \o review_anonymization(segments, Tail(media), Tail(probes))

\* The line get_duration_ms prints in its bare 'except:'.
probe_raised(media_fname) ==
    "ERROR: couldn't retrieve audio info for '" \o media_fname \o "'"

\* The line get_duration_ms prints for a probe that failed: with the status
\* and the output for a CalledProcessError, without them for anything else
\* that was raised.
probe_error(media_fname, probe) ==
    IF probe.returncode # 0
    THEN "ERROR: couldn't retrieve audio info for '" \o media_fname \o "' ("
             \o ToString(probe.returncode) \o ", " \o probe.output \o ")"
    ELSE probe_raised(media_fname)

\* The lines get_duration_ms prints for the probes that failed.
RECURSIVE probe_errors(_, _)
probe_errors(media, probes) ==
    IF media = <<>> THEN <<>>
    ELSE (IF probe_ok(Head(probes)) THEN <<>>
          ELSE << probe_error(Head(media), Head(probes)) >>)
             \o probe_errors(Tail(media), Tail(probes))

\* os.listdir(dir): the files of the directory, in an order that is not
\* specified.
listdir(dir) ==
    { l \in [1 .. Cardinality(dir) -> dir] :
        \A i, j \in 1 .. Cardinality(dir) : l[i] = l[j] => i = j }

\* re.search(r'.*\.(mp4|wav)$', f)
IsMedia(f) ==
    /\ Len(f) >= 4
    /\ SubSeq(f, Len(f) - 3, Len(f)) \in { ".mp4", ".wav" }

\* the files the create_clip calls name as their output, for the calls
\* whose input is one of the files
ClipFiles(calls, inputs) ==
    { calls[k].output_fname :
        k \in { n \in 1 .. Len(calls) : calls[n].input_fname \in inputs } }

\* --review_anonymization: clips of every segment are cut from every media
\* file of the output directory, in the order of its listing.  The
\* transcoder writes the clips of the media files it can read.  When it
\* cannot be started, get_duration_ms catches the exception, prints its
\* line and returns -1, and the subprocess.call of the first create_clip
\* raises, which nothing catches.
ReviewAnonymization ==
    /\ pc = "done"
    /\ \E listing \in listdir(output_dir) :
          \E media \in { SelectSeq(listing, IsMedia) } :
             \/ /\ \E probes \in [1 .. Len(media) -> Probes] :
                      /\ clips' = review_anonymization(segments_to_anonymize,
                                                       media, probes)
                      /\ stdout' = Append(stdout, "Reviewing anonymization...")
                                       \o probe_errors(media, probes)
                /\ \E readable \in SUBSET { f \in output_dir : IsMedia(f) } :
                      output_dir' = output_dir \cup ClipFiles(clips', readable)
                /\ pc' = "reviewed"
             \/ /\ media # <<>>
                /\ segments_to_anonymize # <<>>
                /\ clips' = << review_media(Head(media), -1,
                                            segments_to_anonymize)[1] >>
                /\ stdout' = stdout \o << "Reviewing anonymization...",
                                          probe_raised(Head(media)) >>
                /\ output_dir' = output_dir
                /\ pc' = "raised"
    /\ UNCHANGED <<batchVars, textVars, mergeVars, transcript, loaded, tier_idx,
                   annotations, ann_idx, set_annotation,
                   segments_to_anonymize, volume_filter, video_filter, call,
                   temp_files, ffmpeg_status,
                   original_to_anonymized_media, media_descriptors,
                   saved_transcript>>

\* str.removesuffix
removesuffix(str, suffix) ==
    IF Len(suffix) <= Len(str)
           /\ SubSeq(str, Len(str) - Len(suffix) + 1, Len(str)) = suffix
    THEN SubSeq(str, 1, Len(str) - Len(suffix))
    ELSE str

\* A media descriptor whose file was entered in the dict o2a names the
\* anonymized file instead.
rename_media(media_descriptor, o2a) ==
    LET media_fname == basename(media_descriptor.MEDIA_URL)
    IN  IF DictHas(o2a, media_fname)
        THEN [ MEDIA_URL |->
                   removesuffix(media_descriptor.MEDIA_URL, media_fname)
                       \o DictGet(o2a, media_fname),
               RELATIVE_MEDIA_URL |->
                   removesuffix(media_descriptor.RELATIVE_MEDIA_URL, media_fname)
                       \o DictGet(o2a, media_fname) ]
        ELSE media_descriptor

\* The anonymized transcript is saved into the output directory, its media
\* descriptors renamed, and the empty line printed that ends the work on a
\* transcript.
SaveTranscript ==
    /\ pc \in {"done", "reviewed"}
    /\ media_descriptors' =
           [k \in 1 .. Len(media_descriptors) |->
               rename_media(media_descriptors[k], original_to_anonymized_media)]
    /\ saved_transcript' = <<transcript>>
    /\ output_dir' = output_dir \cup { output_fname(TranscriptFile, ".eaf") }
    /\ stdout' = Append(stdout, "")
    /\ pc' = "saved"
    /\ UNCHANGED <<batchVars, textVars, mergeVars, transcript, loaded, tier_idx,
                   annotations, ann_idx, set_annotation,
                   segments_to_anonymize, volume_filter, video_filter, call,
                   temp_files, ffmpeg_status,
                   original_to_anonymized_media, clips>>

Next ==
    \/ EnterTier
    \/ RedactAnnotation
    \/ CollectSegments
    \/ AnonymizeAudio
    \/ AnonymizeVideo
    \/ ReviewAnonymization
    \/ SaveTranscript

Spec == Init /\ [][Next]_vars

(***************************************************************************)
(* SpecStore: one call of set_value on a loaded transcript                 *)
(***************************************************************************)

CallSpans == { <<0, 1000>>, <<1000, 2000>>, <<0, 2000>> }
CallValues == { "new" }

InitStore ==
    /\ tpc = "off" /\ tIn = "" /\ tOut = NoOut /\ tOut2 = NoOut
    /\ pc = "idle"
    /\ transcript \in Transcripts
    /\ loaded = transcript
    /\ tier_idx = 0
    /\ annotations = <<>>
    /\ ann_idx = 0
    /\ set_annotation = "aligned"
    /\ segments_to_anonymize = <<>>
    /\ volume_filter = ""
    /\ video_filter = ""
    /\ call = NoCall
    /\ MediaIdle
    /\ MergeIdle
    /\ BatchIdle

\* set_value(tier, start_ms, end_ms, new_value): the setter the main loop
\* chooses for the tier, called with the given span and value.
SetValue ==
    /\ pc = "idle"
    /\ \E k \in 1 .. NumTiers, span \in CallSpans, v \in CallValues :
         LET anns == get_annotation_data_for_tier(transcript, TierName(k))
             r == CallSetter(ChooseSetter(anns), transcript, TierName(k),
                             span[1], span[2], v)
         IN  /\ transcript' = r.transcript
             /\ annotations' = anns
             /\ set_annotation' = ChooseSetter(anns)
             /\ tier_idx' = k
             /\ call' = [tier |-> TierName(k), start_ms |-> span[1],
                         end_ms |-> span[2], new_value |-> v,
                         raised |-> r.raised]
    /\ pc' = "called"
    /\ UNCHANGED <<batchVars, textVars, mediaVars, mergeVars, loaded, ann_idx, segments_to_anonymize,
                   volume_filter, video_filter>>

\* The lookup after the call.
Lookup ==
    /\ pc = "called"
    /\ annotations' = get_annotation_data_for_tier(transcript, call.tier)
    /\ pc' = "looked"
    /\ UNCHANGED <<batchVars, textVars, mediaVars, mergeVars, transcript, loaded, tier_idx, ann_idx,
                   set_annotation, segments_to_anonymize, volume_filter,
                   video_filter, call>>

NextStore == SetValue \/ Lookup

SpecStore == InitStore /\ [][NextStore]_vars

\* The redaction pass of Spec up to the lookup of the 'Postprocess' tier;
\* the steps after it leave the annotations alone.
NextPass ==
    \/ EnterTier
    \/ RedactAnnotation
    \/ CollectSegments

\* Every way the script's setters are reached: by the redaction pass of
\* Spec, or by the single call of SpecStore.
SpecMutation == (Init \/ InitStore) /\ [][NextPass \/ NextStore]_vars

(***************************************************************************)
(* SpecFilter: the compiler applied to lists of intervals                  *)
(***************************************************************************)

MaxSegments == 2

Milliseconds == { 0, 5, 999, 1000, 216670, 219193 }
Intervals == { i \in Milliseconds \X Milliseconds : i[1] < i[2] }
SegmentLists ==
    { [k \in 1 .. Len(l) |-> <<l[k][1], l[k][2], "">>] :
        l \in SeqsUpTo(Intervals, MaxSegments) }

InitFilter ==
    /\ tpc = "off" /\ tIn = "" /\ tOut = NoOut /\ tOut2 = NoOut
    /\ pc = "audio"
    /\ transcript = NoTranscript
    /\ loaded = NoTranscript
    /\ tier_idx = 0
    /\ annotations = <<>>
    /\ ann_idx = 0
    /\ set_annotation = "aligned"
    /\ segments_to_anonymize \in SegmentLists
    /\ volume_filter = ""
    /\ video_filter = ""
    /\ call = NoCall
    /\ MediaIdle
    /\ MergeIdle
    /\ BatchIdle

NextFilter == AnonymizeAudio \/ AnonymizeVideo

SpecFilter == InitFilter /\ [][NextFilter]_vars

(***************************************************************************)
(* SpecText: the redactor applied to strings built from fragments          *)
(***************************************************************************)

MaxFrags == 4

Fragments ==
    { "[name]", "[/name]", "[anon type=\"name\"]", "[anon type=\"topic\"]",
      "[/anon]", "[sensitive]", "[/sensitive]", "X", "\n" }

RECURSIVE Concat(_)
Concat(fs) == IF fs = <<>> THEN "" ELSE Head(fs) \o Concat(Tail(fs))

Texts == { Concat(fs) : fs \in UNION { [1 .. n -> Fragments] : n \in 0 .. MaxFrags } }

InitText ==
    /\ tpc = "in"
    /\ tIn \in Texts
    /\ tOut = NoOut
    /\ tOut2 = NoOut
    /\ DocIdle
    /\ MergeIdle
    /\ BatchIdle

\* Both programs redact the string.
Redact ==
    /\ tpc = "in"
    /\ tOut' = [doc |-> anonymize_text(tIn), exp |-> anonymize(tIn)]
    /\ tpc' = "once"
    /\ UNCHANGED <<batchVars, tIn, tOut2, docVars, mediaVars, mergeVars>>

\* ... and each its own output once more.
RedactAgain ==
    /\ tpc = "once"
    /\ tOut2' = [doc |-> anonymize_text(tOut.doc), exp |-> anonymize(tOut.exp[1])]
    /\ tpc' = "twice"
    /\ UNCHANGED <<batchVars, tIn, tOut, docVars, mediaVars, mergeVars>>

NextText == Redact \/ RedactAgain

SpecText == InitText /\ [][NextText]_vars

(***************************************************************************)
(* Claims about the Markup Redactor (SpecText)                             *)
(***************************************************************************)

\* The spans open X close of s with X a non-empty plain text (no bracket)
\* that holds a letter and occurs nowhere around the span: <<i, j>> are the
\* positions of the two tags.
TaggedSpans(s, open, close) ==
    { sp \in (1 .. Len(s)) \X (1 .. Len(s)) :
        /\ StartsAt(s, open, sp[1])
        /\ sp[2] >= sp[1] + Len(open)
        /\ StartsAt(s, close, sp[2])
        /\ LET X == SubSeq(s, sp[1] + Len(open), sp[2] - 1)
           IN  /\ Contains(X, "X")
               /\ ~Contains(X, "[")
               /\ ~Contains(SubSeq(s, 1, sp[1] - 1), X)
               /\ ~Contains(SubSeq(s, sp[2] + Len(close), Len(s)), X) }

Enclosed(s, sp, open) == SubSeq(s, sp[1] + Len(open), sp[2] - 1)

\* What claims C2 and C3 say of one output of the redactor.
Replaced(s, out, open, close, placeholder) ==
    \A sp \in TaggedSpans(s, open, close) :
        /\ Contains(out, placeholder)
        /\ ~Contains(out, Enclosed(s, sp, open))

\* C2: whenever the input holds a span [name]X[/name], the output of the
\* redactor (of either program) holds the literal (NAME) and does not
\* hold X.
C2_NameSpanReplaced ==
    tpc # "in" =>
        /\ Replaced(tIn, tOut.doc, "[name]", "[/name]", "(NAME)")
        /\ Replaced(tIn, tOut.exp[1], "[name]", "[/name]", "(NAME)")

\* C3: whenever the input holds a span [anon type="topic"]Y[/anon], the
\* output of the redactor holds the literal (SENSITIVE) and does not hold Y.
C3_TopicSpanReplaced ==
    tpc # "in" =>
        Replaced(tIn, tOut.doc, "[anon type=\"topic\"]", "[/anon]", "(SENSITIVE)")

\* C4: the redactor is idempotent: redacting its own output returns that
\* output and reports no change, in both programs.
C4_Idempotent ==
    tpc = "twice" =>
        /\ tOut2.doc = tOut.doc
        /\ tOut2.exp[1] = tOut.exp[1]
        /\ tOut2.exp[2] = FALSE

\* C4's case: a string with a tagged name, which the first application
\* replaced, has been redacted twice.
C4_Witness ==
    /\ tpc = "twice"
    /\ tOut.exp[2] = TRUE
    /\ tOut.doc # tIn
    /\ Cardinality(TaggedSpans(tIn, "[name]", "[/name]")) >= 1
    /\ Contains(tOut.doc, "(NAME)")

(***************************************************************************)
(* Claims about the Annotation Store and the redaction pass                *)
(***************************************************************************)

\* The values of a tier's annotations, in document order.
ValuesOf(t) ==
    [k \in 1 .. Len(Aligned(t)) |-> Aligned(t)[k][2][3]]
        \o [k \in 1 .. Len(Ref(t)) |-> Ref(t)[k][2][2]]

\* A tier with the values of its annotations blanked: the identifiers, the
\* timeslot references, the parent references and previous-annotation
\* links, the attributes.
StructureOf(t) ==
    << [k \in 1 .. Len(Aligned(t)) |->
           <<Aligned(t)[k][1], Aligned(t)[k][2][1], Aligned(t)[k][2][2],
             Aligned(t)[k][2][4]>>],
       [k \in 1 .. Len(Ref(t)) |->
           <<Ref(t)[k][1], Ref(t)[k][2][1], Ref(t)[k][2][3], Ref(t)[k][2][4]>>],
       t[3], t[4] >>

Structure(tr) ==
    [timeslots |-> tr.timeslots,
     tiers |-> [k \in 1 .. Len(tr.tiers) |->
                   <<tr.tiers[k][1], StructureOf(tr.tiers[k][2])>>]]

\* The annotations whose value differs between two transcripts of one
\* structure: <<tier, position>>.
ChangedValues(before, after) ==
    { x \in (1 .. Len(before.tiers)) \X (1 .. (MaxAligned + MaxRef + MaxPost + 1)) :
        /\ x[2] <= Len(ValuesOf(before.tiers[x[1]][2]))
        /\ ValuesOf(before.tiers[x[1]][2])[x[2]]
               # ValuesOf(after.tiers[x[1]][2])[x[2]] }

PassOver == pc \in {"audio", "video", "done"}

\* C1: once the pass has walked every tier, each annotation's value is the
\* redactor applied to the value the annotation was loaded with.
C1_PassRedactsEveryAnnotation ==
    PassOver =>
        \A k \in 1 .. Len(loaded.tiers) :
            LET before == ValuesOf(loaded.tiers[k][2])
                after == ValuesOf(transcript.tiers[k][2])
            IN  /\ Len(after) = Len(before)
                /\ \A j \in 1 .. Len(before) : after[j] = anonymize_text(before[j])

\* The spans <<start_ms, end_ms>> of a tier's annotation data.
SpansOf(anns) == [k \in 1 .. Len(anns) |-> <<anns[k][1], anns[k][2]>>]

IsAlignedTier(tr, tier) == Ref(DictGet(tr.tiers, tier)) = <<>>

CallMatches ==
    \E k \in 1 .. Len(get_annotation_data_for_tier(loaded, call.tier)) :
        SpansOf(get_annotation_data_for_tier(loaded, call.tier))[k]
            = <<call.start_ms, call.end_ms>>

\* C5: set_value on an aligned tier that holds an annotation with the given
\* span leaves the identifiers and timeslot references of the tier's
\* annotations as they were, and the lookup of the tier's annotation with
\* that span then returns the new value.
C5_SetAlignedValue ==
    (pc = "looked" /\ IsAlignedTier(loaded, call.tier) /\ CallMatches) =>
        /\ ~call.raised
        /\ StructureOf(DictGet(transcript.tiers, call.tier))
               = StructureOf(DictGet(loaded.tiers, call.tier))
        /\ LET found == { k \in 1 .. Len(annotations) :
                            SpansOf(annotations)[k] = <<call.start_ms, call.end_ms>> }
           IN  /\ found # {}
               /\ annotations[Min(found)][3] = call.new_value

\* C5's case: an annotation of T or Postprocess was set and looked up.
C5_Witness ==
    /\ pc = "looked"
    /\ IsAlignedTier(loaded, call.tier)
    /\ CallMatches
    /\ transcript # loaded
    /\ Len(Aligned(DictGet(loaded.tiers, call.tier))) >= 2

\* C6: set_value with a span that no annotation of the tier has is a silent
\* no-op: nothing is raised and the store is as it was, on aligned and on
\* referential tiers.
C6_NoMatchIsNoOp ==
    (pc \in {"called", "looked"} /\ ~CallMatches) =>
        /\ ~call.raised
        /\ transcript = loaded

\* C7: a step of the script changes annotation values only: timeslots,
\* annotation identifiers, timeslot references, parent references and
\* previous-annotation links stay, and at most one value changes per call
\* of a setter.
C7_OnlyValuesChange ==
    [][ transcript' # transcript =>
            /\ Structure(transcript') = Structure(transcript)
            /\ Cardinality(ChangedValues(transcript, transcript')) <= 1 ]_vars

\* C7's case: the pass is over and has changed the value of a referential
\* and of an aligned annotation.
C7_Witness ==
    /\ PassOver
    /\ \E x \in ChangedValues(loaded, transcript) : TierName(x[1]) = "R"
    /\ \E x \in ChangedValues(loaded, transcript) : TierName(x[1]) = "T"

\* The spans of a tier's aligned annotations, read from the timeslot
\* references alone.
AlignedSpans(tr, tier) ==
    LET a == Aligned(DictGet(tr.tiers, tier))
    IN  [k \in 1 .. Len(a) |->
            <<DictGet(tr.timeslots, a[k][2][1]), DictGet(tr.timeslots, a[k][2][2])>>]

\* C8: the intervals handed to media redaction are the spans of the
\* Postprocess tier's annotations as loaded, in document order, whatever
\* the pass did to the text.
C8_SegmentsArePostprocessSpans ==
    PassOver => SpansOf(segments_to_anonymize) = AlignedSpans(loaded, "Postprocess")

\* C8's case: two intervals were collected after the pass redacted text,
\* that of the Postprocess tier included.
C8_Witness ==
    /\ pc = "done"
    /\ Len(segments_to_anonymize) = 2
    /\ \E x \in ChangedValues(loaded, transcript) : TierName(x[1]) = "Postprocess"
    /\ \E x \in ChangedValues(loaded, transcript) : TierName(x[1]) = "T"

(***************************************************************************)
(* Claims about the Filter Program Compiler (SpecFilter)                   *)
(***************************************************************************)

\* s.split(sep)
RECURSIVE Split(_, _)
Split(s, sep) ==
    LET i == IndexOf(s, sep, 1)
    IN  IF i = 0 THEN <<s>>
        ELSE <<SubSeq(s, 1, i - 1)>> \o Split(SubSeq(s, i + Len(sep), Len(s)), sep)

IsClause(c) == Contains(c, "enable='between(")

\* The clauses of a stream's part of a filter program.
ClausesOf(part) == SelectSeq(Split(part, ", "), IsClause)

\* A millisecond bound as the claims write it: the whole seconds, a point,
\* and the three digits of the remainder.
Seconds(m) ==
    ToString(m \div 1000) \o "." \o ToString((m \div 100) % 10)
        \o ToString((m \div 10) % 10) \o ToString(m % 10)

Gate(seg) == "between(t\\," \o Seconds(seg[1]) \o "\\," \o Seconds(seg[2]) \o ")"

\* The gate a clause carries, from 'between(' to the closing parenthesis.
GateOf(c) ==
    LET i == IndexOf(c, "between(", 1)
    IN  SubSeq(c, i, IndexOf(c, ")", i))

VideoParts == Split(video_filter, "; ")

\* The clauses of a part are n, each of the given filter, the k-th gated by
\* the k-th interval.
ClausesFollow(part, filter, segs) ==
    LET cs == ClausesOf(part)
    IN  /\ Len(cs) = Len(segs)
        /\ \A k \in 1 .. Len(segs) :
              /\ StartsAt(cs[k], filter, 1)
              /\ Contains(cs[k], Gate(segs[k]))

\* C9: for N intervals the audio program holds exactly N mute clauses and
\* the video program exactly N blur clauses followed by exactly N mute
\* clauses, the k-th clause of each stream gated by the k-th interval.
C9_ClauseStructure ==
    /\ pc \in {"video", "done"} =>
          ClausesFollow(volume_filter, "volume=enable=", segments_to_anonymize)
    /\ pc = "done" =>
          LET parts == VideoParts
          IN  /\ Len(parts) = 2
              /\ ClausesFollow(parts[1], "boxblur=10:enable=", segments_to_anonymize)
              /\ ClausesFollow(parts[2], "volume=enable=", segments_to_anonymize)

\* C9's case: both programs were compiled from a list that repeats an
\* interval.
C9_Witness ==
    /\ pc = "done"
    /\ Len(segments_to_anonymize) = 2
    /\ segments_to_anonymize[1] = segments_to_anonymize[2]
    /\ Len(ClausesOf(volume_filter)) = 2

\* C10: every bound m of an interval is shown as m div 1000, a point and
\* m mod 1000 in three digits, and the audio mute clause, the video blur
\* clause and the video mute clause of one interval show the same bounds.
C10_SecondsRendering ==
    pc = "done" =>
        LET mute == ClausesOf(volume_filter)
            parts == VideoParts
            vblur == ClausesOf(parts[1])
            vmute == ClausesOf(parts[2])
        IN  /\ Len(mute) = Len(segments_to_anonymize)
            /\ Len(parts) = 2
            /\ \A k \in 1 .. Len(segments_to_anonymize) :
                  /\ GateOf(mute[k]) = Gate(segments_to_anonymize[k])
                  /\ GateOf(vblur[k]) = GateOf(mute[k])
                  /\ GateOf(vmute[k]) = GateOf(mute[k])

\* C10's case: an interval with a bound below a tenth of a second and one
\* with whole seconds was compiled.
C10_Witness ==
    /\ pc = "done"
    /\ \E k \in 1 .. Len(segments_to_anonymize) :
          /\ segments_to_anonymize[k][1] = 5
          /\ segments_to_anonymize[k][2] = 1000
          /\ GateOf(ClausesOf(volume_filter)[k]) = "between(t\\,0.005\\,1.000)"
    /\ \E k \in 1 .. Len(segments_to_anonymize) :
          GateOf(ClausesOf(VideoParts[2])[k]) = "between(t\\,216.670\\,219.193)"

(***************************************************************************)
(* Claims about the media steps and the review clips (Spec)                *)
(***************************************************************************)

\* C11: no filter-script file that the audio or the video step created
\* exists once the step has been left, whether the transcoder succeeded,
\* returned a non-zero status, or could not be called at all.
C11_FilterScriptRemoved ==
    pc \in {"video", "done", "reviewed", "saved", "raised"} => temp_files = {}

\* The segment the k-th review clip of a media file was cut for.
SegmentOfClip(k) ==
    segments_to_anonymize[((k - 1) % Len(segments_to_anonymize)) + 1]

\* C18: a review clip of a media file whose duration probe failed ends at
\* the segment's end plus the review context and starts at the segment's
\* start less the review context, but not before 0.
C18_ProbeFailureUnclamped ==
    \A k \in 1 .. Len(clips) :
        clips[k].media_dur_ms = -1 =>
            /\ clips[k].end_ms = SegmentOfClip(k)[2] + REVIEW_CONTEXT
            /\ clips[k].start_ms = Max2(SegmentOfClip(k)[1] - REVIEW_CONTEXT, 0)

\* C19: a media file for which the transcoder returned a non-zero status has
\* an error line printed for it, the run goes on to the next file, and the
\* file is not recorded as anonymized.
C19_TranscodeFailureReported ==
    \A k \in 1 .. Len(ffmpeg_status) :
        ffmpeg_status[k][2] # 0 =>
            /\ pc # "raised"
            /\ \E n \in 1 .. Len(stdout) :
                  /\ Contains(stdout[n], "ERROR")
                  /\ Contains(stdout[n], ffmpeg_status[k][1])
            /\ ~DictHas(original_to_anonymized_media,
                        basename(ffmpeg_status[k][1]))

(***************************************************************************)
(* SpecMerge: export_saymore.py on one SayMore session                     *)
(*                                                                         *)
(* A pydub AudioSegment is [len, kind]: its length in milliseconds (what   *)
(* len() gives) and the recording it holds ("orig", "rep", "trans" or      *)
(* "silence").  NoneAudio stands for Python's None.  An AudioSegment is    *)
(* true iff its length is not 0 (pydub defines __len__ and no __bool__).   *)
(* An output track is the sequence of the segments appended to it.         *)
(***************************************************************************)

MaxUtterances == 2

NoneAudio == [len |-> 0, kind |-> "None"]
Truthy(audio) == audio.kind # "None" /\ audio.len > 0

\* pydub.AudioSegment.silent(duration = ms)
silent(ms) == [len |-> ms, kind |-> "silence"]
\* pydub.AudioSegment.empty()
empty == [len |-> 0, kind |-> "silence"]

\* src_audio[start_ms:end_ms]: pydub cuts both bounds down to the length of
\* the audio.
slice(audio_len, start_ms, end_ms) ==
    [len |-> Min2(end_ms, audio_len) - Min2(start_ms, audio_len),
     kind |-> "orig"]

\* str.rstrip(ch) for a single character
RECURSIVE rstrip(_, _)
rstrip(str, ch) ==
    IF Len(str) > 0 /\ SubSeq(str, Len(str), Len(str)) = ch
    THEN rstrip(SubSeq(str, 1, Len(str) - 1), ch)
    ELSE str

\* to_oa: the name of a SayMore oral annotation clip
to_oa(start_ms, end_ms, oa_type) ==
    rstrip(rstrip(Format3f(start_ms, 1000), "0"), ".") \o "_to_"
        \o rstrip(rstrip(Format3f(end_ms, 1000), "0"), ".") \o "_"
        \o oa_type \o ".wav"

\* text.split(' || ') of a text with at most one ' || '
split_text(text) ==
    LET i == IndexOf(text, " || ", 1)
    IN  IF i = 0 THEN <<text, "">>
        ELSE <<SubSeq(text, 1, i - 1), SubSeq(text, i + 4, Len(text))>>

\* ---- the session: the k-th annotation of the Transcription tier spans
\* the k-th second of the source; it has a translation and a source
\* annotation, and the oral annotations folder holds a careful repetition
\* and a translation clip for it, or not; it holds none for an annotation
\* marked '%ignore%', which SayMore leaves out of the audio it exports.
UtteranceSpan(k) == <<(k - 1) * 1000, k * 1000>>
UtteranceTexts ==
    { <<"hi", "tr">>,
      <<"%ignore%", "tr">>,
      <<"[name]X[/name] || ho", "[sensitive]s[/sensitive]">> }
CarefulClips == { NoneAudio, [len |-> 0, kind |-> "rep"], [len |-> 700, kind |-> "rep"] }
TranslationClips == { NoneAudio, [len |-> 300, kind |-> "trans"] }
SourceLengths == { 1000, 1500, 5000 }

\* The files of the oral annotations folder for a span.
OaFiles(span, careful, translation) ==
    (IF careful = NoneAudio THEN <<>>
     ELSE << <<to_oa(span[1], span[2], "Careful"), careful>> >>)
    \o (IF translation = NoneAudio THEN <<>>
        ELSE << <<to_oa(span[1], span[2], "Translation"), translation>> >>)

Rows(k) ==
    UNION { { [ start_ms |-> UtteranceSpan(k)[1], end_ms |-> UtteranceSpan(k)[2],
                text |-> t[1], trans |-> t[2], source |-> "src",
                oa_dir |-> OaFiles(UtteranceSpan(k), c, tc) ] :
                c \in IF t[1] = "%ignore%" THEN {NoneAudio} ELSE CarefulClips,
                tc \in IF t[1] = "%ignore%" THEN {NoneAudio}
                       ELSE TranslationClips } :
            t \in UtteranceTexts }

\* export_saymore.py is started on the session.
InitMerge ==
    /\ tpc = "off" /\ tIn = "" /\ tOut = NoOut /\ tOut2 = NoOut
    /\ DocIdle
    /\ BatchIdle
    /\ mpc = "start"
    /\ args \in [anonymize : BOOLEAN, generate_audio : BOOLEAN]
    /\ src_audio \in {NoSource} \cup { [found |-> TRUE, len |-> n] : n \in SourceLengths }
    /\ oa_dir_isdir \in BOOLEAN
    /\ ~src_audio.found => ~oa_dir_isdir
    /\ utterances = <<>>
    /\ oa_annotations = <<>>
    /\ offset = 0
    /\ annotation_id = 1
    /\ timeslot_id = 1
    /\ output_file = "absent"
    /\ document = NoDocument
    /\ out_tracks = NoTracks
    /\ dst_audio = <<>>

\* 'assert src_audio_fname' and 'assert os.path.isdir(oa_dir)': without the
\* source audio or the oral annotations folder the script ends here.
LocateSource ==
    /\ mpc = "start"
    /\ mpc' = IF src_audio.found /\ oa_dir_isdir THEN "loop" ELSE "failed"
    /\ UNCHANGED <<batchVars, textVars, docVars, mediaVars, args, src_audio, oa_dir_isdir, utterances,
                   oa_annotations, offset, annotation_id, timeslot_id,
                   output_file, document, out_tracks, dst_audio>>

\* place, but with a single timeslot id taken from the counter.
place_one_slot(offset_, annotation_id_, timeslot_id_, length) ==
    [ ts1 |-> offset_, ts1id |-> TsId(timeslot_id_),
      ts2 |-> offset_ + length, ts2id |-> TsId(timeslot_id_ + 1),
      aid |-> AnnId(annotation_id_),
      offset |-> offset_ + length,
      annotation_id |-> annotation_id_ + 1,
      timeslot_id |-> timeslot_id_ + 1 ]

\* One clip takes its place on the timeline: two timeslots at the offset
\* and at the offset plus the length, one annotation id, and the three
\* counters moved on (lines 257-264, 272-279, 288-295).
place(offset_, annotation_id_, timeslot_id_, length) ==
    [ ts1 |-> offset_, ts1id |-> TsId(timeslot_id_),
      ts2 |-> offset_ + length, ts2id |-> TsId(timeslot_id_ + 1),
      aid |-> AnnId(annotation_id_),
      offset |-> offset_ + length,
      annotation_id |-> annotation_id_ + 1,
      timeslot_id |-> timeslot_id_ + 2 ]

\* No clip file: the keys are not set and the counters stay.
unplaced(offset_, annotation_id_, timeslot_id_) ==
    [ ts1 |-> 0, ts1id |-> "", ts2 |-> 0, ts2id |-> "", aid |-> "",
      offset |-> offset_, annotation_id |-> annotation_id_,
      timeslot_id |-> timeslot_id_ ]

\* anonymize(s) if --anonymize was given, else the text as it is.
maybe_anonymize(flag, str) == IF flag THEN anonymize(str) ELSE <<str, FALSE>>

\* The clip file of the row for an oral annotation type, or None.
oa_clip(row, oa_type) ==
    LET fname == to_oa(row.start_ms, row.end_ms, oa_type)
    IN  IF DictHas(row.oa_dir, fname) THEN DictGet(row.oa_dir, fname)
        ELSE NoneAudio

\* silenced, but whatever the redactor did to the text of the clip.
silenced_whatever_text(flag, anonymized, audio) ==
    IF flag /\ Truthy(audio) THEN silent(audio.len) ELSE audio

\* The audio of an annotation after the anonymization of lines 310-323.
silenced(flag, anonymized, audio) ==
    IF flag /\ anonymized /\ Truthy(audio) THEN silent(audio.len) ELSE audio

\* The place of the next clip after the one placed before it, if its file
\* was found.
place_after(prev, audio) ==
    IF audio # NoneAudio
    THEN place(prev.offset, prev.annotation_id, prev.timeslot_id, audio.len)
    ELSE unplaced(prev.offset, prev.annotation_id, prev.timeslot_id)

\* The texts of a row: <<anonymize(orig), anonymize(rep), anonymize(trans)>>
texts_of(row, flag) ==
    << maybe_anonymize(flag, split_text(row.text)[1]),
       maybe_anonymize(flag, split_text(row.text)[2]),
       maybe_anonymize(flag, row.trans) >>

\* The dict 'annotation' of a row with its texts txt, its clips and their
\* places po, pr, pt, and the counters after the row.  The keys of a clip
\* that was not found are never read; here they hold "" and 0.
annotation_of(row, flag, txt, audio_orig, audio_rep, audio_trans, po, pr, pt) ==
    [ annotation |->
        [ orig |-> txt[1][1], orig_anonymized |-> txt[1][2],
          rep |-> txt[2][1], rep_anonymized |-> txt[2][2],
          trans |-> txt[3][1], trans_anonymized |-> txt[3][2],
          source |-> row.source,
          audio_orig |->
              IF flag /\ txt[1][2] THEN silent(audio_orig.len) ELSE audio_orig,
          audio_orig_ts1 |-> po.ts1, audio_orig_ts1id |-> po.ts1id,
          audio_orig_ts2 |-> po.ts2, audio_orig_ts2id |-> po.ts2id,
          audio_orig_aid |-> po.aid,
          audio_rep |-> silenced(flag, txt[2][2], audio_rep),
          audio_rep_ts1 |-> pr.ts1, audio_rep_ts1id |-> pr.ts1id,
          audio_rep_ts2 |-> pr.ts2, audio_rep_ts2id |-> pr.ts2id,
          audio_rep_aid |-> pr.aid,
          audio_trans |-> silenced(flag, txt[3][2], audio_trans),
          audio_trans_ts1 |-> pt.ts1, audio_trans_ts1id |-> pt.ts1id,
          audio_trans_ts2 |-> pt.ts2, audio_trans_ts2id |-> pt.ts2id,
          audio_trans_aid |-> pt.aid ],
      offset |-> pt.offset,
      annotation_id |-> pt.annotation_id,
      timeslot_id |-> pt.timeslot_id ]

\* Lines 281-295: the translation clip is placed after the repetition.
merge_translation(row, flag, txt, audio_orig, audio_rep, audio_trans, po, pr) ==
    annotation_of(row, flag, txt, audio_orig, audio_rep, audio_trans, po, pr,
                  place_after(pr, audio_trans))

\* Lines 266-279: the careful repetition is placed after the original.
merge_repetition(row, flag, txt, audio_orig, audio_rep, audio_trans, po) ==
    merge_translation(row, flag, txt, audio_orig, audio_rep, audio_trans, po,
                      place_after(po, audio_rep))

\* The body of the merge loop for a row that is not ignored: the original
\* clip is cut from the source and placed by the span of the row.
merge_row(row, flag, audio_len, offset_, annotation_id_, timeslot_id_) ==
    merge_repetition(row, flag, texts_of(row, flag),
                     slice(audio_len, row.start_ms, row.end_ms),
                     oa_clip(row, "Careful"), oa_clip(row, "Translation"),
                     place(offset_, annotation_id_, timeslot_id_,
                           row.end_ms - row.start_ms))

\* One iteration of the merge loop: the next row of the Transcription tier
\* is read; a row marked '%ignore%' is skipped.
MergeUtterance ==
    /\ mpc = "loop"
    /\ Len(utterances) < MaxUtterances
    /\ \E row \in Rows(Len(utterances) + 1) :
          /\ utterances' = Append(utterances, row)
          /\ IF row.text = "%ignore%"
             THEN UNCHANGED <<oa_annotations, offset, annotation_id,
                              timeslot_id>>
             ELSE \E r \in { merge_row(row, args.anonymize, src_audio.len,
                                       offset, annotation_id, timeslot_id) } :
                      /\ oa_annotations' = Append(oa_annotations, r.annotation)
                      /\ offset' = r.offset
                      /\ annotation_id' = r.annotation_id
                      /\ timeslot_id' = r.timeslot_id
    /\ UNCHANGED <<batchVars, textVars, docVars, mediaVars, mpc, args, src_audio, oa_dir_isdir,
                   output_file, document, out_tracks, dst_audio>>

RECURSIVE Flatten(_)
Flatten(seqs) == IF seqs = <<>> THEN <<>> ELSE Head(seqs) \o Flatten(Tail(seqs))

\* The positions of the annotations for which '%if a[key]:' holds.
RECURSIVE PlacedFrom(_, _, _)
PlacedFrom(anns, key, i) ==
    IF i > Len(anns) THEN <<>>
    ELSE (IF Truthy(anns[i][key]) THEN <<i>> ELSE <<>>)
             \o PlacedFrom(anns, key, i + 1)
\* Placed, but with every annotation taken to have the clip.
PlacedAll(anns, key) == [i \in 1 .. Len(anns) |-> i]

Placed(anns, key) == PlacedFrom(anns, key, 1)

\* <TIME_ORDER>: the time slots of the annotations, in template order.
render_time_order(anns) ==
    Flatten([i \in 1 .. Len(anns) |->
        LET a == anns[i]
        IN  << <<a.audio_orig_ts1id, a.audio_orig_ts1>>,
               <<a.audio_orig_ts2id, a.audio_orig_ts2>> >>
            \o (IF Truthy(a.audio_rep)
                THEN << <<a.audio_rep_ts1id, a.audio_rep_ts1>>,
                        <<a.audio_rep_ts2id, a.audio_rep_ts2>> >>
                ELSE <<>>)
            \o (IF Truthy(a.audio_trans)
                THEN << <<a.audio_trans_ts1id, a.audio_trans_ts1>>,
                        <<a.audio_trans_ts2id, a.audio_trans_ts2>> >>
                ELSE <<>>)])

\* enumerate_index, but counting the annotations of the tier.
tier_index(placed, j) == j - 1

\* The i of '%for (i, a) in enumerate(annotations):' at the j-th annotation
\* for which the '%if' of the tier holds.
enumerate_index(placed, j) == placed[j] - 1

\* What EAF_TEMPLATE renders for the list of annotations: the time slots as
\* <<id, value>>, the aligned annotations of a tier as <<id, time slot 1,
\* time slot 2, value>> and its reference annotations as <<id, annotation
\* referred to, value>>.  The ids of the reference annotations count on from
\* last_annotation_id through the four child tiers.
render(anns, last_annotation_id) ==
    LET n == Len(anns)
        reps == Placed(anns, "audio_rep")
        transs == Placed(anns, "audio_trans")
    IN  [ timeslots |-> render_time_order(anns),
          tiers |->
            [ Original |->
                [i \in 1 .. n |->
                    <<anns[i].audio_orig_aid, anns[i].audio_orig_ts1id,
                      anns[i].audio_orig_ts2id, anns[i].orig>>],
              Original_ID |->
                [i \in 1 .. n |->
                    <<AnnId(last_annotation_id + i - 1),
                      anns[i].audio_orig_aid, ToString(i - 1)>>],
              Original_Source |->
                [i \in 1 .. n |->
                    <<AnnId(last_annotation_id + n + i - 1),
                      anns[i].audio_orig_aid, anns[i].source>>],
              Repetition |->
                [j \in 1 .. Len(reps) |->
                    <<anns[reps[j]].audio_rep_aid, anns[reps[j]].audio_rep_ts1id,
                      anns[reps[j]].audio_rep_ts2id, anns[reps[j]].rep>>],
              Repetition_ID |->
                [j \in 1 .. Len(reps) |->
                    <<AnnId(last_annotation_id + 2 * n + j - 1),
                      anns[reps[j]].audio_rep_aid, ToString(enumerate_index(reps, j))>>],
              Translation |->
                [j \in 1 .. Len(transs) |->
                    <<anns[transs[j]].audio_trans_aid,
                      anns[transs[j]].audio_trans_ts1id,
                      anns[transs[j]].audio_trans_ts2id, anns[transs[j]].trans>>],
              Translation_ID |->
                [j \in 1 .. Len(transs) |->
                    <<AnnId(last_annotation_id + 2 * n + Len(reps) + j - 1),
                      anns[transs[j]].audio_trans_aid,
                      ToString(enumerate_index(transs, j))>>],
              Postprocess |-> <<>> ] ]

\* The merge loop is over: the output file is opened for writing and the
\* template rendered into it.  If the rendering raises, the script exits
\* with the file as it was opened.
RenderDocument ==
    /\ mpc = "loop"
    /\ \E rendered \in BOOLEAN :
          IF rendered
          THEN /\ document' = render(oa_annotations, annotation_id + 1)
               /\ output_file' = "written"
               /\ mpc' = "rendered"
          ELSE /\ document' = document
               /\ output_file' = "empty"
               /\ mpc' = "failed"
    /\ UNCHANGED <<batchVars, textVars, docVars, mediaVars, args, src_audio, oa_dir_isdir, utterances,
                   oa_annotations, offset, annotation_id, timeslot_id,
                   out_tracks, dst_audio>>

\* append_tracks, but with no silence on the repetition track where the
\* translation track has its clip.
append_tracks_unpadded(tracks, a) ==
    [ orig |-> tracks.orig
                 \o <<a.audio_orig, silent(a.audio_rep.len),
                      silent(a.audio_trans.len)>>,
      rep |-> tracks.rep
                 \o <<silent(a.audio_orig.len), silent(a.audio_rep.len), empty>>,
      trans |-> tracks.trans
                 \o <<silent(a.audio_orig.len), silent(a.audio_rep.len),
                      silent(a.audio_trans.len)>> ]

\* One iteration of the loop that builds the output tracks: each track
\* takes its own clip and silence as long as the clips of the other two.
append_tracks(tracks, a) ==
    LET clip_orig == a.audio_orig
        silent_orig == silent(clip_orig.len)
        clip_rep == IF Truthy(a.audio_rep) THEN a.audio_rep ELSE empty
        silent_rep == IF Truthy(a.audio_rep) THEN silent(a.audio_rep.len)
                      ELSE empty
        clip_trans == IF Truthy(a.audio_trans) THEN a.audio_trans ELSE empty
        silent_trans == IF Truthy(a.audio_trans) THEN silent(a.audio_trans.len)
                        ELSE empty
    IN  [ orig |-> tracks.orig \o <<clip_orig, silent_rep, silent_trans>>,
          rep |-> tracks.rep \o <<silent_orig, clip_rep, silent_trans>>,
          trans |-> tracks.trans \o <<silent_orig, silent_rep, clip_trans>> ]

RECURSIVE build_tracks(_, _)
build_tracks(tracks, anns) ==
    IF anns = <<>> THEN tracks
    ELSE build_tracks(append_tracks(tracks, Head(anns)), Tail(anns))

\* len() of an output track
RECURSIVE TrackLen(_)
TrackLen(track) ==
    IF track = <<>> THEN 0 ELSE Head(track).len + TrackLen(Tail(track))

\* 'if args.generate_audio': the three tracks are built and joined by
\* ffmpeg(1) into the three-channel output file.  subprocess.run raises if
\* ffmpeg cannot be started; the status ffmpeg returns is not looked at.
GenerateAudio ==
    /\ mpc = "rendered"
    /\ args.generate_audio
    /\ out_tracks' = build_tracks(NoTracks, oa_annotations)
    /\ \E outcome \in FfmpegOutcomes :
          /\ dst_audio' = IF ~outcome.raised /\ outcome.returncode = 0
                          THEN << TrackLen(out_tracks'.orig),
                                  TrackLen(out_tracks'.rep),
                                  TrackLen(out_tracks'.trans) >>
                          ELSE <<>>
          /\ mpc' = IF outcome.raised THEN "raised" ELSE "done"
    /\ UNCHANGED <<batchVars, textVars, docVars, mediaVars, args, src_audio,
                   oa_dir_isdir, utterances,
                   oa_annotations, offset, annotation_id, timeslot_id,
                   output_file, document>>

NextMerge ==
    \/ LocateSource
    \/ MergeUtterance
    \/ RenderDocument
    \/ GenerateAudio

SpecMerge == InitMerge /\ [][NextMerge]_vars

(***************************************************************************)
(* Claims about the Timeline Merger (SpecMerge)                            *)
(***************************************************************************)

\* The rows read so far that are not marked '%ignore%'.
Kept == SelectSeq(utterances, LAMBDA row : row.text # "%ignore%")

\* The rows among them for which the folder holds a clip of the type.
HasClip(row, oa_type) ==
    DictHas(row.oa_dir, to_oa(row.start_ms, row.end_ms, oa_type))
WithCareful == SelectSeq(Kept, LAMBDA row : HasClip(row, "Careful"))
WithTranslation == SelectSeq(Kept, LAMBDA row : HasClip(row, "Translation"))

\* The total length of the clips of the annotations from the i-th on.
RECURSIVE ClipSum(_, _)
ClipSum(anns, i) ==
    IF i > Len(anns) THEN 0
    ELSE anns[i].audio_orig.len + anns[i].audio_rep.len
             + anns[i].audio_trans.len + ClipSum(anns, i + 1)

\* C12: once every utterance has been appended, the three output tracks are
\* equally long, and as long as all the clips placed on them together.
C12_TracksEqual ==
    mpc = "done" =>
        /\ TrackLen(out_tracks.orig) = TrackLen(out_tracks.rep)
        /\ TrackLen(out_tracks.rep) = TrackLen(out_tracks.trans)
        /\ TrackLen(out_tracks.orig) = ClipSum(oa_annotations, 1)

\* C12's case: the tracks were built from two utterances, one with a
\* repetition and a translation clip of different lengths and one without.
C12_Witness ==
    /\ mpc = "done"
    /\ Len(oa_annotations) = 2
    /\ \E i \in 1 .. 2 :
          /\ oa_annotations[i].audio_rep.len = 700
          /\ oa_annotations[i].audio_trans.len = 300
    /\ \E i \in 1 .. 2 : oa_annotations[i].audio_rep = NoneAudio
    /\ TrackLen(out_tracks.trans) > 1000

\* C13: the timeslot ids taken from the counter are twice as many as the
\* clips of the utterances: one original clip for each utterance kept, and
\* the repetition and translation clips found.
C13_TimeslotCount ==
    timeslot_id - 1 = 2 * (Len(Kept) + Len(WithCareful) + Len(WithTranslation))

\* C13's case: of the utterances merged one had all three clips, one was
\* ignored or had the original only.
C13_Witness ==
    /\ Len(utterances) = 2
    /\ Len(WithCareful) = 1
    /\ Len(WithTranslation) = 1
    /\ WithCareful = WithTranslation
    /\ timeslot_id > 6

\* The ids of the time slots and of the annotations of the document.
DocTimeslotIds == [k \in 1 .. Len(document.timeslots) |-> document.timeslots[k][1]]
DocAligned ==
    document.tiers.Original \o document.tiers.Repetition
        \o document.tiers.Translation
DocRef ==
    document.tiers.Original_ID \o document.tiers.Original_Source
        \o document.tiers.Repetition_ID \o document.tiers.Translation_ID
DocAnnotationIds ==
    [k \in 1 .. Len(DocAligned) |-> DocAligned[k][1]]
        \o [k \in 1 .. Len(DocRef) |-> DocRef[k][1]]
DocTimeslotRefs ==
    Flatten([k \in 1 .. Len(DocAligned) |-> <<DocAligned[k][2], DocAligned[k][3]>>])

NoRepeats(list) ==
    \A i, j \in 1 .. Len(list) : list[i] = list[j] => i = j
Once(x, list) == Cardinality({ k \in 1 .. Len(list) : list[k] = x }) = 1

\* C14: in the rendered document no two time slots and no two annotations
\* share an id, and every timeslot id and annotation id the merge loop took
\* from its counters is the id of exactly one time slot, referred to by
\* exactly one annotation, or of exactly one annotation.
C14_IdsUniqueAndUsed ==
    mpc \in {"rendered", "done", "raised"} =>
        /\ NoRepeats(DocTimeslotIds)
        /\ NoRepeats(DocAnnotationIds)
        /\ \A k \in 1 .. timeslot_id - 1 :
              /\ Once(TsId(k), DocTimeslotIds)
              /\ Once(TsId(k), DocTimeslotRefs)
        /\ \A k \in 1 .. annotation_id - 1 : Once(AnnId(k), DocAnnotationIds)

\* The span of an aligned annotation of the document.
SpanOf(ann) ==
    <<DictGet(document.timeslots, ann[2]), DictGet(document.timeslots, ann[3])>>

\* The aligned annotations of the three tiers in placement order: for each
\* utterance its Original annotation, then its Repetition and Translation
\* annotations if the document has them.
Timeline ==
    LET reps == Placed(oa_annotations, "audio_rep")
        transs == Placed(oa_annotations, "audio_trans")
    IN  Flatten([i \in 1 .. Len(oa_annotations) |->
            <<document.tiers.Original[i]>>
            \o Flatten([j \in 1 .. Len(reps) |->
                   IF reps[j] = i THEN <<document.tiers.Repetition[j]>> ELSE <<>>])
            \o Flatten([j \in 1 .. Len(transs) |->
                   IF transs[j] = i THEN <<document.tiers.Translation[j]>> ELSE <<>>])])

\* Where the k-th segment of a track lies in it.
PlaceInTrack(track, k) ==
    <<TrackLen(SubSeq(track, 1, k - 1)), TrackLen(SubSeq(track, 1, k))>>

\* C15: the aligned annotations of Original, Repetition and Translation in
\* placement order start at 0, follow one another without gap or overlap
\* and end at the length of the tracks, and the span of each is where its
\* clip lies in its own track.
C15_TimelineTiling ==
    mpc = "done" =>
        LET tl == Timeline
            reps == Placed(oa_annotations, "audio_rep")
            transs == Placed(oa_annotations, "audio_trans")
        IN  /\ tl # <<>> =>
                  /\ SpanOf(tl[1])[1] = 0
                  /\ SpanOf(tl[Len(tl)])[2] = TrackLen(out_tracks.orig)
            /\ \A k \in 1 .. Len(tl) - 1 : SpanOf(tl[k + 1])[1] = SpanOf(tl[k])[2]
            /\ \A i \in 1 .. Len(oa_annotations) :
                  SpanOf(document.tiers.Original[i])
                      = PlaceInTrack(out_tracks.orig, 3 * i - 2)
            /\ \A j \in 1 .. Len(reps) :
                  SpanOf(document.tiers.Repetition[j])
                      = PlaceInTrack(out_tracks.rep, 3 * reps[j] - 1)
            /\ \A j \in 1 .. Len(transs) :
                  SpanOf(document.tiers.Translation[j])
                      = PlaceInTrack(out_tracks.trans, 3 * transs[j])

\* C16: the Original, Repetition and Translation tiers have one aligned
\* annotation for each utterance that has an original, a repetition and a
\* translation clip, and every child tier as many reference annotations as
\* its parent tier has aligned annotations.
C16_TierCounts ==
    mpc \in {"rendered", "done", "raised"} =>
        /\ Len(document.tiers.Original) = Len(Kept)
        /\ Len(document.tiers.Repetition) = Len(WithCareful)
        /\ Len(document.tiers.Translation) = Len(WithTranslation)
        /\ Len(document.tiers.Original_ID) = Len(document.tiers.Original)
        /\ Len(document.tiers.Original_Source) = Len(document.tiers.Original)
        /\ Len(document.tiers.Repetition_ID) = Len(document.tiers.Repetition)
        /\ Len(document.tiers.Translation_ID) = Len(document.tiers.Translation)

\* C17: without the source audio the merge fails before anything is placed
\* or written, and no utterance whose span yields no audio from the source
\* is ever placed on the timeline.
C17_NoOriginalIsFatal ==
    /\ (~src_audio.found /\ mpc # "start") =>
          /\ mpc = "failed"
          /\ oa_annotations = <<>>
          /\ output_file = "absent"
          /\ dst_audio = <<>>
    /\ \A i \in 1 .. Len(oa_annotations) : oa_annotations[i].audio_orig.len > 0

\* C20: when the rendering of the document has failed, no output document
\* file exists, not even an empty one, and no merged audio was produced.
C20_RenderFailureLeavesNothing ==
    mpc = "failed" =>
        /\ output_file = "absent"
        /\ out_tracks = NoTracks
        /\ dst_audio = <<>>


(***************************************************************************)
(* SpecBatch: anonymize_doc.py over several transcripts                    *)
(***************************************************************************)

\* the most transcripts given on the command line
MaxBatch == 2

\* The transcript without its tier 'Postprocess'.
WithoutPostprocess(tr) ==
    [tr EXCEPT !.tiers = SelectSeq(tr.tiers,
                                   LAMBDA t : t[1] # "Postprocess")]

\* The transcripts of a batch: one with a tag on T and on R, the same with a
\* tag on RR, a tier of reference annotations under the reference tier R,
\* and the first without the tier 'Postprocess'.
BatchTranscripts ==
    { MakeTranscript(<<"[sensitive]foo[/sensitive] bar">>, <<1, 1>>,
                     <<"[name]X[/name] ok", "[name]X[/name] ok">>, <<>>,
                     1, ""),
      MakeTranscript(<<"[sensitive]foo[/sensitive] bar">>, <<1, 1>>,
                     <<"[name]X[/name] ok", "[name]X[/name] ok">>,
                     <<"[name]X[/name] ok">>, 1, ""),
      WithoutPostprocess(
          MakeTranscript(<<"[sensitive]foo[/sensitive] bar">>, <<1, 1>>,
                         <<"[name]X[/name] ok", "[name]X[/name] ok">>, <<>>,
                         1, "")) }

\* What is found at the path of a transcript given on the command line:
\* whether the file exists, the transcript it holds, and whether its
\* directory holds an audio and a video file of its basename.
BatchInputs ==
    { f \in [exists : BOOLEAN,
             transcript : BatchTranscripts \cup {NoTranscript},
             audio : BOOLEAN, video : BOOLEAN] :
        /\ f.exists <=> f.transcript # NoTranscript
        /\ ~f.exists => ~f.audio /\ ~f.video }

\* 'for (start_ms, end_ms, value, *refvalue) in annotations' from the k-th
\* annotation on: the transcript after the loop, or that a setter raised.
RECURSIVE redact_annotations(_, _, _, _, _)
redact_from(r, tier, setter, anns, k) ==
    IF r.raised THEN r
    ELSE redact_annotations(r.transcript, tier, setter, anns, k)
redact_annotations(tr, tier, setter, anns, k) ==
    IF k > Len(anns) THEN Returned(tr)
    ELSE redact_from(IF anonymous_text_re(anns[k][3])
                     THEN CallSetter(setter, tr, tier, anns[k][1], anns[k][2],
                                     anonymize_text(anns[k][3]))
                     ELSE Returned(tr),
                     tier, setter, anns, k + 1)

\* 'for tier in transcript.tiers' from the t-th tier on.
RECURSIVE redact_tiers(_, _)
redact_tier(tr, tier, anns) ==
    redact_annotations(tr, tier, ChooseSetter(anns), anns, 1)
redact_next_tier(r, t) ==
    IF r.raised THEN r ELSE redact_tiers(r.transcript, t)
redact_tiers(tr, t) ==
    IF t > Len(tr.tiers) THEN Returned(tr)
    ELSE redact_next_tier(
             redact_tier(tr, tr.tiers[t][1],
                         get_annotation_data_for_tier(tr, tr.tiers[t][1])),
             t + 1)

\* the path of the i-th transcript and of its media
TranscriptPath(i) == "/data/s" \o ToString(i) \o ".eaf"
MediaPath(i, ext) == "/data/s" \o ToString(i) \o ext

\* The options are the defaults: audio, video and text are anonymized, no
\* review clips.
InitBatch ==
    /\ tpc = "off" /\ tIn = "" /\ tOut = NoOut /\ tOut2 = NoOut
    /\ DocIdle
    /\ MergeIdle
    /\ bpc = "load"
    /\ \E n \in 1 .. MaxBatch : elan_transcripts \in [1 .. n -> BatchInputs]
    /\ batch_idx = 1
    /\ batch_stdout = <<>>
    /\ batch_output = <<>>
    /\ batch_error = ""

\* An exception nothing catches ends the script with its traceback.
Uncaught(exception) ==
    /\ batch_error' = exception
    /\ bpc' = "ended"
    /\ UNCHANGED <<batch_idx, batch_stdout, batch_output>>

\* transcript = pympi.Elan.Eaf(input_transcript_fname), which opens the
\* file, and the line printed for the transcript.
LoadTranscript ==
    /\ bpc = "load"
    /\ IF ~elan_transcripts[batch_idx].exists
       THEN Uncaught("FileNotFoundError")
       ELSE /\ batch_stdout' =
                   Append(batch_stdout,
                          "Anonymizing transcript '"
                              \o TranscriptPath(batch_idx) \o "'")
            /\ bpc' = "tiers"
            /\ UNCHANGED <<batch_idx, batch_output, batch_error>>
    /\ UNCHANGED <<textVars, docVars, mediaVars, mergeVars, elan_transcripts>>

\* The loop over the tiers, which changes the transcript in memory and ends
\* the script when a setter raises KeyError, and
\* transcript.get_annotation_data_for_tier('Postprocess'), which raises
\* KeyError for a tier the transcript does not have.
RedactTiers ==
    /\ bpc = "tiers"
    /\ IF \/ redact_tiers(elan_transcripts[batch_idx].transcript, 1).raised
          \/ ~DictHas(elan_transcripts[batch_idx].transcript.tiers,
                      "Postprocess")
       THEN Uncaught("KeyError")
       ELSE /\ bpc' = "audio"
            /\ UNCHANGED <<batch_idx, batch_stdout, batch_output, batch_error>>
    /\ UNCHANGED <<textVars, docVars, mediaVars, mergeVars, elan_transcripts>>

\* A media loop of the transcript: the directory listing holds the media
\* file or not; for a file it holds, the line is printed and ffmpeg called.
BatchMedia(found, kind, ext, next_pc) ==
    IF ~found
    THEN /\ bpc' = next_pc
         /\ UNCHANGED <<batch_idx, batch_stdout, batch_output, batch_error>>
    ELSE \E outcome \in FfmpegOutcomes :
            IF outcome.raised
            THEN /\ batch_error' = "OSError"
                 /\ bpc' = "ended"
                 /\ batch_stdout' =
                        Append(batch_stdout,
                               "Anonymizing " \o kind \o " file '"
                                   \o MediaPath(batch_idx, ext) \o "'")
                 /\ UNCHANGED <<batch_idx, batch_output>>
            ELSE /\ bpc' = next_pc
                 /\ batch_stdout' =
                        Append(batch_stdout,
                               "Anonymizing " \o kind \o " file '"
                                   \o MediaPath(batch_idx, ext) \o "'")
                 /\ batch_output' =
                        IF outcome.returncode = 0
                        THEN Append(batch_output,
                                    output_fname(MediaPath(batch_idx, ext), ext))
                        ELSE batch_output
                 /\ UNCHANGED <<batch_idx, batch_error>>

BatchAudio ==
    /\ bpc = "audio"
    /\ BatchMedia(elan_transcripts[batch_idx].audio, "audio", ".wav", "video")
    /\ UNCHANGED <<textVars, docVars, mediaVars, mergeVars, elan_transcripts>>

BatchVideo ==
    /\ bpc = "video"
    /\ BatchMedia(elan_transcripts[batch_idx].video, "video", ".mp4", "save")
    /\ UNCHANGED <<textVars, docVars, mediaVars, mergeVars, elan_transcripts>>

\* The transcript is saved, an empty line printed, and the loop goes on to
\* the next transcript, if there is one.
BatchSave ==
    /\ bpc = "save"
    /\ batch_output' =
           Append(batch_output, output_fname(TranscriptPath(batch_idx), ".eaf"))
    /\ batch_stdout' = Append(batch_stdout, "")
    /\ batch_idx' = batch_idx + 1
    /\ bpc' = IF batch_idx = Len(elan_transcripts) THEN "ended" ELSE "load"
    /\ UNCHANGED <<textVars, docVars, mediaVars, mergeVars, elan_transcripts,
                   batch_error>>

NextBatch ==
    \/ LoadTranscript
    \/ RedactTiers
    \/ BatchAudio
    \/ BatchVideo
    \/ BatchSave

SpecBatch == InitBatch /\ [][NextBatch]_vars

(***************************************************************************)
(* Claims about the batch (SpecBatch)                                      *)
(***************************************************************************)

\* the transcript of the path was written to the output directory
Saved(i) ==
    \E k \in 1 .. Len(batch_output) :
        batch_output[k] = output_fname(TranscriptPath(i), ".eaf")

\* the transcripts of the batch that can be located, with their tier
Locatable ==
    { i \in 1 .. Len(elan_transcripts) :
        /\ elan_transcripts[i].exists
        /\ DictHas(elan_transcripts[i].transcript.tiers, "Postprocess") }

\* the transcripts of the batch on which a setter of the tier loop raises
SetterRaises ==
    { i \in 1 .. Len(elan_transcripts) :
        /\ elan_transcripts[i].exists
        /\ redact_tiers(elan_transcripts[i].transcript, 1).raised }

\* C21: when a transcript, or the tier 'Postprocess' or a media file it
\* needs, cannot be located, the item is skipped and the run does not abort:
\* a run on transcripts whose tier loop raises nothing, that no transcoder
\* error ended, has ended with no error, and every transcript of the batch
\* that can be located has been saved.
C21_MissingInputSkipped ==
    bpc = "ended" /\ batch_error # "OSError" /\ SetterRaises = {}
        => /\ batch_error = ""
           /\ \A i \in Locatable : Saved(i)


(***************************************************************************)
(* Further claims about the Timeline Merger (SpecMerge)                    *)
(***************************************************************************)

\* the annotation ids of a tier of the document
IdsOf(tier) == { tier[k][1] : k \in 1 .. Len(tier) }

\* the annotations of a tier of the document, as a set
AnnotationsOf(tier) == { tier[k] : k \in 1 .. Len(tier) }

\* every reference annotation of the child tier refers to an annotation of
\* the parent tier
RefersInto(child, parent) ==
    \A r \in AnnotationsOf(child) : r[2] \in IdsOf(parent)

\* C22: in the rendered document every timeslot reference of an aligned
\* annotation names a time slot of the timeslot table, and every reference
\* annotation of Original-ID, Original-Source, Repetition-ID and
\* Translation-ID refers to an annotation of its parent tier.
C22_ReferentialIntegrity ==
    mpc \in {"rendered", "done", "raised"} =>
        /\ \A ann \in AnnotationsOf(DocAligned) :
              /\ DictHas(document.timeslots, ann[2])
              /\ DictHas(document.timeslots, ann[3])
        /\ RefersInto(document.tiers.Original_ID, document.tiers.Original)
        /\ RefersInto(document.tiers.Original_Source, document.tiers.Original)
        /\ RefersInto(document.tiers.Repetition_ID, document.tiers.Repetition)
        /\ RefersInto(document.tiers.Translation_ID, document.tiers.Translation)

\* C22: a document of two utterances is rendered, one with a repetition and
\* a translation clip, one with neither.
C22_Witness ==
    /\ mpc = "rendered"
    /\ Len(document.tiers.Original) = 2
    /\ Len(document.tiers.Repetition_ID) = 1
    /\ Len(document.tiers.Translation_ID) = 1
    /\ \E i \in 1 .. 2 : /\ oa_annotations[i].audio_rep = NoneAudio
                         /\ oa_annotations[i].audio_trans = NoneAudio


\* the values of the reference annotations of a tier that refer to the id
OrdinalsOf(tier, id) == { r[3] : r \in { x \in AnnotationsOf(tier) : x[2] = id } }

\* One step of the merge loop keeps the order of the source: a row marked
\* '%ignore%' leaves the annotations and the three counters as they are,
\* any other row is appended after the annotations there are.
KeepsOrder ==
    utterances' # utterances =>
        IF utterances'[Len(utterances')].text = "%ignore%"
        THEN UNCHANGED <<oa_annotations, offset, annotation_id, timeslot_id>>
        ELSE /\ Len(oa_annotations') = Len(oa_annotations) + 1
             /\ SubSeq(oa_annotations', 1, Len(oa_annotations)) = oa_annotations
             /\ offset' > offset
             /\ annotation_id' > annotation_id
             /\ timeslot_id' > timeslot_id

\* In the rendered document the reference annotations of an utterance on
\* Original-ID, and on Repetition-ID and Translation-ID if the document has
\* its repetition and its translation, carry its zero-based position among
\* the utterances that are not ignored.
OrdinalsAgree ==
    mpc \in {"rendered", "done", "raised"} =>
        /\ Len(oa_annotations) = Len(Kept)
        /\ \A i \in 1 .. Len(oa_annotations) :
              /\ OrdinalsOf(document.tiers.Original_ID,
                            oa_annotations[i].audio_orig_aid) = {ToString(i - 1)}
              /\ Truthy(oa_annotations[i].audio_rep) =>
                    OrdinalsOf(document.tiers.Repetition_ID,
                               oa_annotations[i].audio_rep_aid) = {ToString(i - 1)}
              /\ Truthy(oa_annotations[i].audio_trans) =>
                    OrdinalsOf(document.tiers.Translation_ID,
                               oa_annotations[i].audio_trans_aid) = {ToString(i - 1)}

\* C23: the reference annotations of an utterance on Original-ID,
\* Repetition-ID and Translation-ID all carry the zero-based position of the
\* utterance among the utterances that are not ignored, in source order, and
\* an utterance marked '%ignore%' gets no ordinal and takes no timeslot id,
\* annotation id or audio offset.
C23_Ordinals == []OrdinalsAgree /\ [][KeepsOrder]_vars

\* C23: the document of two utterances is rendered of which only the second
\* has a repetition and a translation: the first annotations of
\* Repetition-ID and Translation-ID carry the ordinal 1.
C23_Witness ==
    /\ mpc = "rendered"
    /\ Len(document.tiers.Original_ID) = 2
    /\ Len(document.tiers.Repetition_ID) = 1
    /\ Len(document.tiers.Translation_ID) = 1
    /\ document.tiers.Repetition_ID[1][3] = "1"
    /\ document.tiers.Translation_ID[1][3] = "1"


\* annotations.append(annotation), with the counters after the row
merge_onto(sofar, r) ==
    [annotations |-> Append(sofar.annotations, r.annotation),
     offset |-> r.offset, annotation_id |-> r.annotation_id,
     timeslot_id |-> r.timeslot_id]

\* The merge loop over the rows with --anonymize as given: the annotations
\* and the counters after the last row.
RECURSIVE merge_all(_, _, _, _)
merge_all(rows, flag, audio_len, sofar) ==
    IF rows = <<>> THEN sofar
    ELSE merge_all(Tail(rows), flag, audio_len,
                   merge_onto(sofar,
                              merge_row(Head(rows), flag, audio_len,
                                        sofar.offset, sofar.annotation_id,
                                        sofar.timeslot_id)))

\* The run of the merge loop on the utterances of this run, but with
\* --anonymize the other way.
OtherRun ==
    merge_all(Kept, ~args.anonymize, src_audio.len,
              [annotations |-> <<>>, offset |-> 0, annotation_id |-> 1,
               timeslot_id |-> 1])

\* Where an annotation lies on the timeline: the offsets and ids of the time
\* slots and the annotation ids of its three clips.
PlaceOf(a) ==
    << a.audio_orig_ts1, a.audio_orig_ts1id, a.audio_orig_ts2,
       a.audio_orig_ts2id, a.audio_orig_aid,
       a.audio_rep_ts1, a.audio_rep_ts1id, a.audio_rep_ts2,
       a.audio_rep_ts2id, a.audio_rep_aid,
       a.audio_trans_ts1, a.audio_trans_ts1id, a.audio_trans_ts2,
       a.audio_trans_ts2id, a.audio_trans_aid >>

\* The clip of the anonymizing run is the clip of the plain run, or silence
\* of its length where the redactor changed the text of the clip.
SilencedByOwnText(anon_clip, plain_clip, plain_text) ==
    \/ anon_clip = plain_clip
    \/ /\ anon_clip = silent(plain_clip.len)
       /\ anonymize(plain_text)[2]

\* The two runs, the anonymizing one first, agree but for the silence.
SameTimeline(anon, plain) ==
    /\ anon.offset = plain.offset
    /\ anon.annotation_id = plain.annotation_id
    /\ anon.timeslot_id = plain.timeslot_id
    /\ Len(anon.annotations) = Len(plain.annotations)
    /\ \A i \in 1 .. Len(anon.annotations) :
          /\ PlaceOf(anon.annotations[i]) = PlaceOf(plain.annotations[i])
          /\ SilencedByOwnText(anon.annotations[i].audio_orig,
                               plain.annotations[i].audio_orig,
                               plain.annotations[i].orig)
          /\ SilencedByOwnText(anon.annotations[i].audio_rep,
                               plain.annotations[i].audio_rep,
                               plain.annotations[i].rep)
          /\ SilencedByOwnText(anon.annotations[i].audio_trans,
                               plain.annotations[i].audio_trans,
                               plain.annotations[i].trans)

\* the lengths of the three tracks built of the annotations
TrackLengths(anns) ==
    << TrackLen(build_tracks(NoTracks, anns).orig),
       TrackLen(build_tracks(NoTracks, anns).rep),
       TrackLen(build_tracks(NoTracks, anns).trans) >>

\* this run of the merge loop
ThisRun ==
    [annotations |-> oa_annotations, offset |-> offset,
     annotation_id |-> annotation_id, timeslot_id |-> timeslot_id]

\* C24: the run with --anonymize and the run without it on the same
\* utterances and clips take the same timeslot ids with the same offsets and
\* the same annotation ids and build tracks of the same lengths; a clip of
\* the anonymizing run is the clip of the other run or silence of exactly its
\* length, and it is silence only where the redactor changed its own text.
\* The timeline is compared while the loop runs and when the document is
\* rendered (the audio step leaves the annotations alone), the tracks once
\* the audio step has built them.
C24_AnonymizeKeepsTimeline ==
    /\ mpc \in {"loop", "rendered"} =>
          IF args.anonymize THEN SameTimeline(ThisRun, OtherRun)
          ELSE SameTimeline(OtherRun, ThisRun)
    /\ mpc \in {"done", "raised"} =>
          << TrackLen(out_tracks.orig), TrackLen(out_tracks.rep),
             TrackLen(out_tracks.trans) >>
              = TrackLengths(OtherRun.annotations)

\* C24: an anonymizing run has built its tracks of two utterances, with a
\* clip it silenced for its text and a repetition clip it kept because the
\* redactor left the text of the repetition as it was.
C24_Witness ==
    /\ mpc = "done"
    /\ args.anonymize
    /\ Len(oa_annotations) = 2
    /\ \E i \in 1 .. 2 :
          /\ oa_annotations[i].orig_anonymized
          /\ oa_annotations[i].audio_orig = silent(1000)
          /\ ~oa_annotations[i].rep_anonymized
          /\ oa_annotations[i].audio_rep = [len |-> 700, kind |-> "rep"]
          /\ oa_annotations[i].audio_trans = silent(300)

====
